---- MODULE Spec2Model ----
(***************************************************************************)
(* State-machine model of the DAOS object-store bridge of RNTuple:         *)
(*   - RDaosContainer::VectorReadWrite with the event queue it drives      *)
(*     (tree/ntuple/v7/src/RDaos.cxx), fed by the (oid, dkey) coalescing   *)
(*     of RPageSourceDaos::LoadClusters;                                   *)
(*   - the RPageSinkDaos commit path (tree/ntuple/v7/src/                  *)
(*     RPageStorageDaos.cxx), alone (SinkSpec), under a host that calls    *)
(*     its operations in any order (HostSpec), and read back by a fresh    *)
(*     RPageSourceDaos (RoundTripSpec);                                    *)
(*   - single calls of RDaosContainer's constructor and of the anchor      *)
(*     codec (UnitSpec).                                                   *)
(* The DAOS library itself is the environment: its calls return 0 or a     *)
(* negative code, and dispatched requests complete asynchronously.         *)
(***************************************************************************)
EXTENDS Integers, Sequences, FiniteSets, TLC

\* ------------------------------------------------------------------ bounds
\* Longest batch of page operations handed to one vectored call.
MaxOps == 3
\* Most commit operations (page, cluster, cluster group) of one sink run.
MaxCommits == 3

\* Most pages of one column in the cluster handed to LoadClusters.
MaxPages == 2
\* Most requests (distinct (oid, dkey) buckets) of one of two concurrent calls.
MaxVec == 2

\* -------------------------------------------------------- library constants
DER_INVAL == 1003
DER_EXIST == 1004
DAOS_REC_ANY == 0
OC_UNKNOWN == 0
OC_RP_XSF == 80
OC_SX == 214
kOCNameMaxLength == 64

\* Negative codes a library call may return synchronously or complete with.
LibErr == {0 - DER_INVAL, 0 - DER_EXIST}
LibRc == {0} \cup LibErr

\* ------------------------------------------------------------ input domains
\* (oid, dkey) pairs of the batches: two objects, two distribution keys.
KeyPairs == {<<"A", 1>>, <<"A", 2>>, <<"B", 1>>}

\* The page operation at position i of a batch: its akey is the page offset
\* (unique per page), its buffer is the i-th slice of the payload buffer.
PageOp(kp, i) ==
    [oid |-> kp[1], dkey |-> kp[2], akey |-> 10 + i,
     iov |-> [iov_buf |-> i, iov_len |-> 1 + (i % 2)]]

Batches ==
    UNION {{[i \in 1..n |-> PageOp(ks[i], i)] : ks \in [1..n -> KeyPairs]} : n \in 0..MaxOps}

VARIABLES
    batch,          \* page operations of the caller, in submission order
    fn,             \* "Fetch" (ReadV) or "Update" (WriteV)
    readRequests,   \* map (oid, dkey) -> RWOperation built by the caller
    vec,            \* the RWOperations as VectorReadWrite iterates them
    pc,             \* position of the vectored call
    requests,       \* VectorReadWrite's local vector of (object, args)
    evs,            \* the library's view of the events on the pool's queue
    ret,            \* value returned by VectorReadWrite
    outcome,        \* how VectorReadWrite ended
    nIssued,        \* number of daos_obj_fetch / daos_obj_update calls made
    observed,       \* PollEvent has seen the parent's completion flag set
    libRequests     \* daos_obj_fetch / daos_obj_update calls as the library received them

vvars == <<batch, fn, readRequests, vec, pc, requests, evs, ret, outcome, nIssued, observed,
           libRequests>>

VARIABLES
    fURI,                   \* the sink's URI, a sequence of characters
    optObjectClass,         \* object class name of the write options
    sinkState,              \* host-visible position of the sink's run
    sinkError,              \* what a throwing sink operation reported
    fDefaultObjectClass,    \* the container's default object class id
    fOid,                   \* the sink's atomic page-offset counter
    fNBytesCurrentCluster,  \* bytes committed to the open cluster
    nClusters,              \* clusters in the sink's descriptor builder
    fNTupleAnchor,          \* the sink's anchor
    writes,                 \* WriteSingleAkey calls that reached the library
    history,                \* what the commit operations returned, in call order
    libCalls,               \* pool and container calls made by create, in order
    rejected                \* the host's last call was refused as out of order

svars == <<fURI, optObjectClass, sinkState, sinkError, fDefaultObjectClass, fOid,
           fNBytesCurrentCluster, nClusters, fNTupleAnchor, writes, history, libCalls,
           rejected>>

VARIABLES
    call,                   \* a single function call under test: its inputs
    result                  \* what that call returned

uvars == <<call, result>>

VARIABLES
    srcState,               \* position of the page source: constructed, attached, failed
    ntpl,                   \* the anchor the source decoded
    srcObjectClass,         \* default object class of the source's container
    loaded,                 \* sealed pages read so far: history position -> what was read
    reads,                  \* every ReadSingleAkey the source issued, in order
    clusterResult           \* how LoadClusters ended and the clusters it returned

rvars == <<srcState, ntpl, srcObjectClass, loaded, reads, clusterResult>>

vars == <<vvars, svars, uvars, rvars>>

EmptyMap == [k \in {} |-> k]

\* ------------------------------------------------------------ coalescing
\* The dictionary key of a page operation.
DictKey_ByAkey(s) == <<s.oid, s.dkey, s.akey>>

DictKey_ByOid(s) == <<s.oid, 0>>

DictKey(s) == <<s.oid, s.dkey>>

\* RWOperation::insert(oid, dkey, akey, iov): the first operation of a bucket.
RWOperation_insert_new(s) ==
    [fOid |-> s.oid, fDistributionKey |-> s.dkey,
     fAttributeKeys |-> <<s.akey>>, fIovs |-> <<s.iov>>]

\* RWOperation::insert(akey, iov): a further akey of an existing bucket.
RWOperation_insert(op, s) ==
    [op EXCEPT !.fAttributeKeys = Append(@, s.akey), !.fIovs = Append(@, s.iov)]

RECURSIVE CoalesceFrom(_, _, _)
CoalesceFrom(ops, i, m) ==
    IF i > Len(ops) THEN m
    ELSE LET s == ops[i]
             dict_key == DictKey(s)
         IN  CoalesceFrom(ops, i + 1,
                IF dict_key \notin DOMAIN m
                THEN (dict_key :> RWOperation_insert_new(s)) @@ m
                ELSE [m EXCEPT ![dict_key] = RWOperation_insert(@, s)])

Coalesce(ops) == CoalesceFrom(ops, 1, EmptyMap)

\* Iteration orders of an unordered map with key set K.
Orders(K) ==
    {s \in [1..Cardinality(K) -> K] : \A i, j \in 1..Cardinality(K) : i # j => s[i] # s[j]}

\* ------------------------------------------------------ FetchUpdateArgs
\* iod_name and sg_iovs are pointers into the request's own fAkeys / fIovs:
\* they are modelled as the index they point at.
FetchUpdateArgs_FirstLen(d, as, vs, is_async) ==
    [fDkey |-> d, fAkeys |-> as, fIovs |-> vs,
     fIods |-> [i \in 1..Len(as) |->
                  [iod_name |-> i, iod_nr |-> 1, iod_size |-> vs[1].iov_len, iod_type |-> "SINGLE"]],
     fSgls |-> [i \in 1..Len(as) |-> [sg_nr_out |-> 0, sg_nr |-> 1, sg_iovs |-> i]],
     fIsAsync |-> is_async]

FetchUpdateArgs(d, as, vs, is_async) ==
    [fDkey |-> d, fAkeys |-> as, fIovs |-> vs,
     fIods |-> [i \in 1..Len(as) |->
                  [iod_name |-> i, iod_nr |-> 1, iod_size |-> vs[i].iov_len, iod_type |-> "SINGLE"]],
     fSgls |-> [i \in 1..Len(as) |-> [sg_nr_out |-> 0, sg_nr |-> 1, sg_iovs |-> i]],
     fIsAsync |-> is_async]

\* RDaosObject::Fetch: every record size becomes DAOS_REC_ANY before the call.
Fetch_FirstDescriptorOnly(args) ==
    [args EXCEPT !.fIods = [i \in 1..Len(args.fIods) |->
                              IF i = 1 THEN [args.fIods[i] EXCEPT !.iod_size = DAOS_REC_ANY] ELSE args.fIods[i]]]

Fetch(args) ==
    [args EXCEPT !.fIods = [i \in 1..Len(args.fIods) |-> [args.fIods[i] EXCEPT !.iod_size = DAOS_REC_ANY]]]

\* RDaosObject::Update: the request goes to the library as constructed.
Update(args) == args

ApplyFn(f, args) == IF f = "Fetch" THEN Fetch(args) ELSE Update(args)

\* FetchUpdateArgs::GetEventPointer for a request whose fEvent member is the
\* event ev: the pointer handed to the library, nullptr when synchronous.
nullptr == 0 - 1

GetEventPointer_Always(args, ev) == ev

GetEventPointer(args, ev) == IF args.fIsAsync THEN ev ELSE nullptr

\* What daos_obj_fetch / daos_obj_update receives from Fetch / Update, with
\* the code rc it answers.
LibRequest(f, oid, args, ev, rc) ==
    [fn |-> f, oid |-> oid, args |-> ApplyFn(f, args), event |-> GetEventPointer(args, ev), rc |-> rc]

\* ------------------------------------------------------- library events
\* Event 0 is the parent of the call, event k the child of requests[k].
NewEvent(parent) == [parent |-> parent, status |-> "ready", error |-> 0, barrier |-> FALSE]

Children(e) == {k \in DOMAIN e : e[k].parent = 0}

\* daos_event_test on the parent: the flag is set once the barrier has been
\* launched and every child has completed.
EventTestFlag(e) ==
    /\ 0 \in DOMAIN e
    /\ e[0].barrier
    /\ \A k \in Children(e) : e[k].status = "completed"

\* daos_event_parent_barrier: a parent without children is rejected.
BarrierRcs(e) == IF Children(e) = {} THEN {0 - DER_INVAL} ELSE LibRc

\* ------------------------------------------------- VectorReadWrite
\* The spin loop of PollEvent is left when the flag is set.
PollEventLoopExit_Always(flag) == TRUE

PollEventLoopExit_Never(flag) == FALSE

PollEventLoopExit(flag) == flag

\* The dispatch loop returns the library's code when it is negative.
DispatchAbort_Never(rc) == FALSE

DispatchAbort(rc) == rc < 0

Throw ==
    /\ pc' = "done"
    /\ outcome' = "throw"
    /\ UNCHANGED ret

\* ------------------------------------------------------------- the sink
\* 64-bit keys are kept as four 16-bit limbs, most significant first.
U64(n) == <<0, 0, (n \div 65536) % 65536, n % 65536>>

\* std::uint64_t(-n) for a small positive n.
U64Neg(n) == <<65535, 65535, 65535, 65536 - n>>

kDistributionKey == <<23100, 27120, 51966, 18961>>          \* 0x5a3c69f0cafe4a11
kDistributionKeyMetadata == <<23100, 27120, 51966, 18706>>  \* 0x5a3c69f0cafe4912
kAttributeKey == <<16963, 21579, 21316, 16941>>             \* 0x4243544b5344422d
kAttributeKeyAnchor == <<16963, 21579, 21316, 16941>>       \* 0x4243544b5344422d
kAttributeKeyHeader == <<16963, 21579, 21316, 16926>>       \* 0x4243544b5344421e
kAttributeKeyFooter == <<16963, 21579, 21316, 16911>>       \* 0x4243544b5344420f
kOidMetadata == [lo |-> U64Neg(11), hi |-> U64(0)]
kOidPageList == [lo |-> U64Neg(12), hi |-> U64(0)]
kCidMetadata == OC_SX

\* daos_oclass_name2id for the names the model uses.
ObjClassId(name) ==
    IF name = "SX" THEN OC_SX
    ELSE IF name = "RP_XSF" THEN OC_RP_XSF
    ELSE OC_UNKNOWN

\* The regular expression daos://([^/]+)/(.+), matched against the whole URI.
UriPrefix == <<"d", "a", "o", "s", ":", "/", "/">>

ParseDaosURI_SchemeOnly(uri) ==
    /\ Len(uri) > Len(UriPrefix)
    /\ SubSeq(uri, 1, Len(UriPrefix)) = UriPrefix

ParseDaosURI(uri) ==
    /\ Len(uri) > Len(UriPrefix)
    /\ SubSeq(uri, 1, Len(UriPrefix)) = UriPrefix
    /\ \E k \in (Len(UriPrefix) + 2)..(Len(uri) - 1) :
          /\ uri[k] = "/"
          /\ \A j \in (Len(UriPrefix) + 1)..(k - 1) : uri[j] # "/"

\* Page key of the cluster / column layout.
GetDaosPageKey_SameObject(clusterId, columnId, offset) ==
    [oid |-> [lo |-> U64(0), hi |-> U64(0)], dkey |-> U64(columnId), akey |-> U64(offset)]

GetDaosPageKey_WithoutOffset(clusterId, columnId, offset) ==
    [oid |-> [lo |-> U64(clusterId), hi |-> U64(0)], dkey |-> U64(columnId), akey |-> U64(0)]

GetDaosPageKey_KeysSwapped(clusterId, columnId, offset) ==
    [oid |-> [lo |-> U64(clusterId), hi |-> U64(0)], dkey |-> U64(offset), akey |-> U64(columnId)]

GetDaosPageKey(clusterId, columnId, offset) ==
    [oid |-> [lo |-> U64(clusterId), hi |-> U64(0)], dkey |-> U64(columnId), akey |-> U64(offset)]

\* RDaosNTupleAnchor::Serialize(nullptr): 20 fixed bytes and the string.
SerializedStringSize(str) == 4 + Len(str)

AnchorSerializedSize(anchor) == SerializedStringSize(anchor.fObjClass) + 20

\* RNTupleSerializer: 32-bit integers are four little-endian bytes, a string
\* is its 32-bit length followed by its characters.
SerializeUInt32(val) ==
    <<val % 256, (val \div 256) % 256, (val \div 65536) % 256, (val \div 16777216) % 256>>

DeserializeUInt32(bytes, at) ==
    bytes[at] + 256 * bytes[at + 1] + 65536 * bytes[at + 2] + 16777216 * bytes[at + 3]

SerializeString(str) == SerializeUInt32(Len(str)) \o str

\* DeserializeString(buffer + at - 1, bufSize, val): the string and the bytes
\* consumed, or a failure when the buffer is too short.
DeserializeString(bytes, at, bufSize) ==
    IF bufSize < 4 THEN [ok |-> FALSE, val |-> <<>>, n |-> 0]
    ELSE LET length == DeserializeUInt32(bytes, at)
         IN  IF bufSize - 4 < length THEN [ok |-> FALSE, val |-> <<>>, n |-> 0]
             ELSE [ok |-> TRUE, val |-> SubSeq(bytes, at + 4, at + 3 + length), n |-> 4 + length]

\* RDaosNTupleAnchor::Serialize(buffer): the bytes written.
AnchorSerialize(anchor) ==
    SerializeUInt32(anchor.fVersion) \o SerializeUInt32(anchor.fNBytesHeader)
        \o SerializeUInt32(anchor.fLenHeader) \o SerializeUInt32(anchor.fNBytesFooter)
        \o SerializeUInt32(anchor.fLenFooter) \o SerializeString(anchor.fObjClass)

DefaultAnchor ==
    [fVersion |-> 0, fNBytesHeader |-> 0, fLenHeader |-> 0,
     fNBytesFooter |-> 0, fLenFooter |-> 0, fObjClass |-> <<>>]

\* RDaosNTupleAnchor::Deserialize(buffer, bufSize) on a fresh anchor: the
\* result (bytes consumed, or the error) and the anchor's fields afterwards.
AnchorDeserialize_HeaderFieldsSwapped(bytes, bufSize) ==
    IF bufSize < 20
    THEN [ok |-> FALSE, error |-> "TruncatedAnchor", n |-> 0, anchor |-> DefaultAnchor]
    ELSE LET str == DeserializeString(bytes, 21, bufSize - 20)
             ints == [
                  fVersion |-> DeserializeUInt32(bytes, 1),
                  fNBytesHeader |-> DeserializeUInt32(bytes, 9),
                  fLenHeader |-> DeserializeUInt32(bytes, 5),
                  fNBytesFooter |-> DeserializeUInt32(bytes, 13),
                  fLenFooter |-> DeserializeUInt32(bytes, 17),
                  fObjClass |-> <<>>]
         IN  IF ~str.ok
             THEN [ok |-> FALSE, error |-> "StringDecodeError", n |-> 0, anchor |-> ints]
             ELSE [ok |-> TRUE, error |-> "none", n |-> str.n + 20,
                   anchor |-> [ints EXCEPT !.fObjClass = str.val]]

AnchorDeserialize_NoSizeCheck(bytes, bufSize) ==
    LET str == DeserializeString(bytes, 21, bufSize - 20)
             ints == [
                  fVersion |-> DeserializeUInt32(bytes, 1),
                  fNBytesHeader |-> DeserializeUInt32(bytes, 5),
                  fLenHeader |-> DeserializeUInt32(bytes, 9),
                  fNBytesFooter |-> DeserializeUInt32(bytes, 13),
                  fLenFooter |-> DeserializeUInt32(bytes, 17),
                  fObjClass |-> <<>>]
         IN  IF ~str.ok
             THEN [ok |-> FALSE, error |-> "StringDecodeError", n |-> 0, anchor |-> ints]
             ELSE [ok |-> TRUE, error |-> "none", n |-> str.n + 20,
                   anchor |-> [ints EXCEPT !.fObjClass = str.val]]

AnchorDeserialize(bytes, bufSize) ==
    IF bufSize < 20
    THEN [ok |-> FALSE, error |-> "TruncatedAnchor", n |-> 0, anchor |-> DefaultAnchor]
    ELSE LET str == DeserializeString(bytes, 21, bufSize - 20)
             ints == [
                  fVersion |-> DeserializeUInt32(bytes, 1),
                  fNBytesHeader |-> DeserializeUInt32(bytes, 5),
                  fLenHeader |-> DeserializeUInt32(bytes, 9),
                  fNBytesFooter |-> DeserializeUInt32(bytes, 13),
                  fLenFooter |-> DeserializeUInt32(bytes, 17),
                  fObjClass |-> <<>>]
         IN  IF ~str.ok
             THEN [ok |-> FALSE, error |-> "StringDecodeError", n |-> 0, anchor |-> ints]
             ELSE [ok |-> TRUE, error |-> "none", n |-> str.n + 20,
                   anchor |-> [ints EXCEPT !.fObjClass = str.val]]

\* RDaosNTupleAnchor::GetSize(): what a default anchor serializes to, plus
\* room for the longest class name.
AnchorGetSize_WithoutPrefix == 20 + kOCNameMaxLength

AnchorGetSize == AnchorSerializedSize(DefaultAnchor) + kOCNameMaxLength

\* fOid.fetch_add(1): the new value of the counter.
FetchAdd_NoIncrement(c) == c

FetchAdd_StuckAfterFirst(c) == IF c = 0 THEN 1 ELSE c

FetchAdd(c) == c + 1

\* Outcomes of one WriteSingleAkey: the library's code, or an exception of
\* RDaosObject's constructor when daos_obj_open fails.
WriteOutcomes == {"ok", "rc", "throw"}

WriteRc(o) == IF o = "ok" THEN 0 ELSE 0 - DER_INVAL

WriteRecord(op, key, cid, size, o, data, payload) ==
    [op |-> op, oid |-> key.oid, dkey |-> key.dkey, akey |-> key.akey,
     cid |-> cid, size |-> size, rc |-> WriteRc(o), data |-> data, payload |-> payload]

\* The bytes of the sealed page committed at the given offset.
SealedBytes(offsetData, size) == [i \in 1..size |-> 1 + ((7 * offsetData + i) % 199)]

\* The compressed bytes of a header (tag 200), footer (210) or page list (220).
ZipBytes(tag, size) == [i \in 1..size |-> tag + i]

\* WriteNTupleAnchor's buffer: GetSize() zeroed bytes with the anchor
\* serialized at its start.
AnchorBuffer(anchor) ==
    LET bytes == AnchorSerialize(anchor)
    IN  SubSeq(bytes \o [i \in 1..AnchorGetSize |-> 0], 1, AnchorGetSize)

MetadataKey(akey) == [oid |-> kOidMetadata, dkey |-> kDistributionKeyMetadata, akey |-> akey]

\* RNTupleCompressor::Zip: at most the input length.
ZipSizes(length) == {n \in 1..length : n >= length - 1}

SampleURIs ==
    {<<"d", "a", "o", "s", ":", "/", "/", "p", "/", "c">>,
     <<"d", "a", "o", "s", ":", "/", "/", "p">>}

\* Class names are sequences of character codes: "SX", "RP_XSF", "bogus".
SampleClasses == {<<83, 88>>, <<82, 80, 95, 88, 83, 70>>, <<98, 111, 103, 117, 115>>}

ClassName(chars) ==
    IF chars = <<83, 88>> THEN "SX"
    ELSE IF chars = <<82, 80, 95, 88, 83, 70>> THEN "RP_XSF"
    ELSE "bogus"

PageSizes == {1, 2}
ColumnIds == {0, 3}

SinkConstructed(uri, cls) ==
    /\ fURI = uri
    /\ optObjectClass = cls
    /\ sinkState = "INIT"
    /\ sinkError = "none"
    /\ fDefaultObjectClass = OC_SX
    /\ fOid = 0
    /\ fNBytesCurrentCluster = 0
    /\ nClusters = 0
    /\ fNTupleAnchor = DefaultAnchor
    /\ writes = <<>>
    /\ history = <<>>
    /\ libCalls = <<>>
    /\ rejected = FALSE

SinkThrow(what) ==
    /\ sinkState' = "FAILED"
    /\ sinkError' = what

LifecycleAllows_Always(state, op) == TRUE

LifecycleAllows_NotTerminal(state, op) ==
    IF op = "create" THEN state = "INIT" ELSE state \in {"CREATED", "DATASET_COMMITTED"}

\* The sink's public operations reach the Impl methods only in lifecycle
\* order: create once and first, commits while open, nothing after the
\* dataset is committed or after an operation threw.
LifecycleAllows(state, op) ==
    IF op = "create" THEN state = "INIT" ELSE state = "CREATED"

SinkOps == {"create", "commitSealedPage", "commitCluster", "commitClusterGroup", "commitDataset"}

\* A public operation called out of lifecycle order: refused with
\* IllegalState before its Impl method runs.
IllegalCall(op) ==
    /\ ~LifecycleAllows(sinkState, op)
    /\ rejected' = TRUE
    /\ UNCHANGED <<fURI, optObjectClass, sinkState, sinkError, fDefaultObjectClass, fOid,
                   fNBytesCurrentCluster, nClusters, fNTupleAnchor, writes, history, libCalls>>
    /\ UNCHANGED <<vvars, uvars, rvars>>

\* RDaosPool::RDaosPool: the library calls made and whether construction succeeds.
RDaosPool_ctor(rcConnect, rcEqCreate) ==
    IF rcConnect # 0
    THEN [ok |-> FALSE, calls |-> <<"daos_pool_connect">>]
    ELSE [ok |-> ~(rcEqCreate < 0), calls |-> <<"daos_pool_connect", "daos_eq_create">>]

\* RDaosContainer::RDaosContainer: the library calls made and whether
\* construction succeeds.
RDaosContainer_ctor_NoTolerance(create, rcCreate, rcOpen) ==
    IF create /\ rcCreate # 0
    THEN [ok |-> FALSE, calls |-> <<"daos_cont_create_with_label">>]
    ELSE [ok |-> rcOpen = 0,
          calls |-> (IF create THEN <<"daos_cont_create_with_label">> ELSE <<>>) \o <<"daos_cont_open">>]

RDaosContainer_ctor(create, rcCreate, rcOpen) ==
    IF create /\ rcCreate # 0 /\ rcCreate # 0 - DER_EXIST
    THEN [ok |-> FALSE, calls |-> <<"daos_cont_create_with_label">>]
    ELSE [ok |-> rcOpen = 0,
          calls |-> (IF create THEN <<"daos_cont_create_with_label">> ELSE <<>>) \o <<"daos_cont_open">>]

\* The part of CreateImpl before the header is written: the first failure
\* ("none" when there is none) and the library calls made up to it.
CreateImplOpen_ConnectFirst(oclass, uriOk, pool, container) ==
    IF ~uriOk THEN [error |-> "InvalidURI", calls |-> <<>>]
    ELSE IF ~pool.ok THEN [error |-> "PoolConnectFailed", calls |-> pool.calls]
    ELSE IF ~container.ok THEN [error |-> "ContainerOpenFailed", calls |-> pool.calls \o container.calls]
    ELSE IF oclass = OC_UNKNOWN
    THEN [error |-> "UnknownObjectClass", calls |-> pool.calls \o container.calls]
    ELSE [error |-> "none", calls |-> pool.calls \o container.calls]

CreateImplOpen(oclass, uriOk, pool, container) ==
    IF oclass = OC_UNKNOWN THEN [error |-> "UnknownObjectClass", calls |-> <<>>]
    ELSE IF ~uriOk THEN [error |-> "InvalidURI", calls |-> <<>>]
    ELSE IF ~pool.ok THEN [error |-> "PoolConnectFailed", calls |-> pool.calls]
    ELSE IF ~container.ok THEN [error |-> "ContainerOpenFailed", calls |-> pool.calls \o container.calls]
    ELSE [error |-> "none", calls |-> pool.calls \o container.calls]

\* RPageSinkDaos::CreateImpl
CreateImpl ==
    /\ LifecycleAllows(sinkState, "create")
    /\ \E rcConnect \in {0, 0 - DER_INVAL}, rcEqCreate \in {0, 0 - DER_INVAL},
          rcCreate \in LibRc, rcOpen \in {0, 0 - DER_INVAL}, length \in {2}, o \in WriteOutcomes :
         \E szZipHeader \in ZipSizes(length) :
           LET oclass == ObjClassId(ClassName(optObjectClass))
               opened == CreateImplOpen(oclass, ParseDaosURI(fURI), RDaosPool_ctor(rcConnect, rcEqCreate),
                                        RDaosContainer_ctor(TRUE, rcCreate, rcOpen))
           IN  /\ libCalls' = libCalls \o opened.calls
               /\ IF opened.error # "none"
                  THEN /\ SinkThrow(opened.error)
                       /\ fNTupleAnchor' = [fNTupleAnchor EXCEPT !.fObjClass = optObjectClass]
                       /\ UNCHANGED <<fDefaultObjectClass, writes>>
                  ELSE IF o = "throw"
                  THEN /\ SinkThrow("ObjectOpenFailed")
                       /\ fNTupleAnchor' = [fNTupleAnchor EXCEPT !.fObjClass = optObjectClass]
                       /\ fDefaultObjectClass' = oclass
                       /\ UNCHANGED writes
                  ELSE /\ sinkState' = "CREATED"
                       /\ UNCHANGED sinkError
                       /\ fDefaultObjectClass' = oclass
                       /\ writes' = Append(writes,
                             WriteRecord("CreateImpl", MetadataKey(kAttributeKeyHeader), kCidMetadata,
                                         szZipHeader, o, "header", ZipBytes(200, szZipHeader)))
                       /\ fNTupleAnchor' = [fNTupleAnchor EXCEPT !.fObjClass = optObjectClass,
                                                                 !.fLenHeader = length,
                                                                 !.fNBytesHeader = szZipHeader]
    /\ UNCHANGED <<fURI, optObjectClass, fOid, fNBytesCurrentCluster, nClusters, history>>
    /\ rejected' = FALSE
    /\ UNCHANGED <<vvars, uvars, rvars>>

\* RPageSinkDaos::CommitSealedPageImpl
CommitSealedPageImpl(columnId, size, o) ==
    /\ LifecycleAllows(sinkState, "commitSealedPage")
    /\ Len(history) < MaxCommits
    /\ LET offsetData == fOid
           clusterId == nClusters
           store_key == GetDaosPageKey(clusterId, columnId, offsetData)
       IN  /\ fOid' = FetchAdd(fOid)
           /\ IF o = "throw"
              THEN /\ SinkThrow("ObjectOpenFailed")
                   /\ UNCHANGED <<writes, history, fNBytesCurrentCluster>>
              ELSE /\ writes' = Append(writes,
                         WriteRecord("CommitSealedPageImpl", store_key, fDefaultObjectClass, size, o, "page",
                                     SealedBytes(offsetData, size)))
                   /\ history' = Append(history,
                         [op |-> "page", fColumnId |-> columnId, fPosition |-> offsetData,
                          fBytesOnStorage |-> size])
                   /\ fNBytesCurrentCluster' = fNBytesCurrentCluster + size
                   /\ UNCHANGED <<sinkState, sinkError>>
    /\ UNCHANGED <<fURI, optObjectClass, fDefaultObjectClass, nClusters, fNTupleAnchor>>
    /\ UNCHANGED libCalls
    /\ rejected' = FALSE
    /\ UNCHANGED <<vvars, uvars, rvars>>

\* The descriptor builder gains one cluster per committed cluster.
AdvanceClusterId(n) == n + 1

\* std::exchange(obj, new_value): the old value is returned, the new one stored.
Exchange_KeepsOld(obj, new_value) == [ret |-> obj, obj |-> obj]

Exchange(obj, new_value) == [ret |-> obj, obj |-> new_value]

\* RPageSinkDaos::CommitClusterImpl
CommitClusterImpl ==
    /\ LifecycleAllows(sinkState, "commitCluster")
    /\ Len(history) < MaxCommits
    /\ history' = Append(history,
         [op |-> "cluster", fPosition |-> 0 - 1, fBytesOnStorage |-> Exchange(fNBytesCurrentCluster, 0).ret])
    /\ fNBytesCurrentCluster' = Exchange(fNBytesCurrentCluster, 0).obj
    /\ nClusters' = AdvanceClusterId(nClusters)
    /\ UNCHANGED <<fURI, optObjectClass, sinkState, sinkError, fDefaultObjectClass, fOid, fNTupleAnchor, writes>>
    /\ UNCHANGED libCalls
    /\ rejected' = FALSE
    /\ UNCHANGED <<vvars, uvars, rvars>>

\* RPageSinkDaos::CommitClusterGroupImpl
CommitClusterGroupImpl(length, o) ==
    /\ LifecycleAllows(sinkState, "commitClusterGroup")
    /\ Len(history) < MaxCommits
    /\ \E szPageListZip \in ZipSizes(length) :
         LET offsetData == fOid
             key == [oid |-> kOidPageList, dkey |-> kDistributionKeyMetadata, akey |-> U64(offsetData)]
         IN  /\ fOid' = FetchAdd(fOid)
             /\ IF o = "throw"
                THEN /\ SinkThrow("ObjectOpenFailed")
                     /\ UNCHANGED <<writes, history>>
                ELSE /\ writes' = Append(writes,
                           WriteRecord("CommitClusterGroupImpl", key, kCidMetadata, szPageListZip, o, "pagelist",
                                       ZipBytes(220, szPageListZip)))
                     /\ history' = Append(history,
                           [op |-> "group", fPosition |-> offsetData, fBytesOnStorage |-> szPageListZip])
                     /\ UNCHANGED <<sinkState, sinkError>>
    /\ UNCHANGED <<fURI, optObjectClass, fDefaultObjectClass, fNBytesCurrentCluster, nClusters, fNTupleAnchor>>
    /\ UNCHANGED libCalls
    /\ rejected' = FALSE
    /\ UNCHANGED <<vvars, uvars, rvars>>

\* WriteNTupleFooter(...); WriteNTupleAnchor();
CommitDatasetLog_AnchorFirst(w, footer, anchor) == w \o <<anchor, footer>>

CommitDatasetLog(w, footer, anchor) == w \o <<footer, anchor>>

\* RPageSinkDaos::CommitDatasetImpl
CommitDatasetImpl(length, oFooter, oAnchor) ==
    /\ LifecycleAllows(sinkState, "commitDataset")
    /\ \E szFooterZip \in ZipSizes(length) :
         LET footer == WriteRecord("CommitDatasetImpl", MetadataKey(kAttributeKeyFooter), kCidMetadata,
                                   szFooterZip, oFooter, "footer", ZipBytes(210, szFooterZip))
             anchorAfter == [fNTupleAnchor EXCEPT !.fLenFooter = length, !.fNBytesFooter = szFooterZip]
             anchor == WriteRecord("CommitDatasetImpl", MetadataKey(kAttributeKeyAnchor), kCidMetadata,
                                   AnchorGetSize, oAnchor, "anchor", AnchorBuffer(anchorAfter))
         IN  IF oFooter = "throw"
             THEN /\ SinkThrow("ObjectOpenFailed")
                  /\ UNCHANGED <<writes, fNTupleAnchor>>
             ELSE IF oAnchor = "throw"
             THEN /\ SinkThrow("ObjectOpenFailed")
                  /\ writes' = Append(writes, footer)
                  /\ fNTupleAnchor' = anchorAfter
             ELSE /\ sinkState' = "DATASET_COMMITTED"
                  /\ UNCHANGED sinkError
                  /\ writes' = CommitDatasetLog(writes, footer, anchor)
                  /\ fNTupleAnchor' = anchorAfter
    /\ UNCHANGED <<fURI, optObjectClass, fDefaultObjectClass, fOid, fNBytesCurrentCluster, nClusters, history>>
    /\ UNCHANGED libCalls
    /\ rejected' = FALSE
    /\ UNCHANGED <<vvars, uvars, rvars>>

\* ------------------------------------------------------------ the source
\* The container's content: the record a fetch finds under a key of an object
\* is the one the last successful update put there.
StoredUnder(w, key, cid) ==
    {i \in 1..Len(w) :
        /\ w[i].rc = 0
        /\ w[i].oid = key.oid /\ w[i].dkey = key.dkey /\ w[i].akey = key.akey
        /\ w[i].cid = cid}

Zeroes(n) == [i \in 1..n |-> 0]

\* daos_obj_fetch into a zeroed buffer of the given length: the code and the
\* buffer afterwards.
DaosObjFetch(w, key, cid, length) ==
    LET found == StoredUnder(w, key, cid)
    IN  IF found = {} THEN [rc |-> 0 - DER_INVAL, buffer |-> Zeroes(length)]
        ELSE LET rec == w[CHOOSE i \in found : \A j \in found : j <= i]
             IN  IF rec.size > length THEN [rc |-> 0 - DER_INVAL, buffer |-> Zeroes(length)]
                 ELSE [rc |-> 0, buffer |-> rec.payload \o Zeroes(length - rec.size)]

\* RDaosContainer::ReadSingleAkey
ReadSingleAkey(w, length, key, cid) == DaosObjFetch(w, key, cid, length)

\* Unzip and DeserializeHeaderV1 / FooterV1 / PageListV1 accept the bytes the
\* sink compressed for that record and nothing else.
Decodes(tag, buffer) == Len(buffer) > 0 /\ buffer = ZipBytes(tag, Len(buffer))

\* What the footer and the page lists describe: the cluster groups, and the
\* pages of the clusters a cluster group covers, with the locators the sink
\* returned for them.
DescGroups(h) == {g \in 1..Len(h) : h[g].op = "group"}

DescPages(h) ==
    {a \in 1..Len(h) :
        /\ h[a].op = "page"
        /\ \E c \in 1..Len(h) : a < c /\ h[c].op = "cluster" /\ \E g \in DescGroups(h) : c < g}

DescClusterId(h, a) == Cardinality({c \in 1..Len(h) : c < a /\ h[c].op = "cluster"})

\* The source's constructor: ParseDaosURI, then the pool, then the container
\* (opened, not created): the first failure and the library calls made.
SourceOpen(uriOk, pool, container) ==
    IF ~uriOk THEN [error |-> "InvalidURI", calls |-> <<>>]
    ELSE IF ~pool.ok THEN [error |-> "PoolConnectFailed", calls |-> pool.calls]
    ELSE IF ~container.ok THEN [error |-> "ContainerOpenFailed", calls |-> pool.calls \o container.calls]
    ELSE [error |-> "none", calls |-> pool.calls \o container.calls]

\* RPageSourceDaos::RPageSourceDaos on the sink's URI
SourceConstruct ==
    /\ sinkState = "DATASET_COMMITTED"
    /\ srcState = "NONE"
    /\ \E rcConnect \in {0, 0 - DER_INVAL}, rcOpen \in {0, 0 - DER_INVAL} :
         srcState' = IF SourceOpen(ParseDaosURI(fURI), RDaosPool_ctor(rcConnect, 0),
                                   RDaosContainer_ctor(FALSE, 0, rcOpen)).error = "none"
                     THEN "CONSTRUCTED" ELSE "CTOR_FAILED"
    /\ UNCHANGED <<ntpl, srcObjectClass, loaded, reads, clusterResult>>
    /\ UNCHANGED <<vvars, svars, uvars>>

\* RDaosContainer::SetDefaultObjectClass on a container whose default is cur:
\* the default afterwards.
SetDefaultObjectClass_Ignored(cur, cid) == cur

SetDefaultObjectClass(cur, cid) == cid

\* One ReadSingleAkey as the library sees it.
ReadCall(key, cid, length) == [key |-> key, cid |-> cid, length |-> length]

\* The members of a set of history positions in ascending order.
RECURSIVE Ascending(_)
Ascending(S) ==
    IF S = {} THEN <<>>
    ELSE LET m == CHOOSE x \in S : \A y \in S : x <= y
         IN  <<m>> \o Ascending(S \ {m})

PageListKey(h, g) ==
    [oid |-> kOidPageList, dkey |-> kDistributionKeyMetadata, akey |-> U64(h[g].fPosition)]

\* The reads AttachImpl issues once the anchor is decoded: none when the
\* class it names is unknown, else header, footer and one per page list.
AttachReads_IgnoresClass(anchor, oclass, h) ==
    <<ReadCall(MetadataKey(kAttributeKeyHeader), kCidMetadata, anchor.fNBytesHeader),
      ReadCall(MetadataKey(kAttributeKeyFooter), kCidMetadata, anchor.fNBytesFooter)>>
    \o [i \in 1..Cardinality(DescGroups(h)) |->
          LET g == Ascending(DescGroups(h))[i]
          IN  ReadCall(PageListKey(h, g), kCidMetadata, h[g].fBytesOnStorage)]

AttachReads(anchor, oclass, h) ==
    IF oclass = OC_UNKNOWN THEN <<>>
    ELSE <<ReadCall(MetadataKey(kAttributeKeyHeader), kCidMetadata, anchor.fNBytesHeader),
           ReadCall(MetadataKey(kAttributeKeyFooter), kCidMetadata, anchor.fNBytesFooter)>>
         \o [i \in 1..Cardinality(DescGroups(h)) |->
               LET g == Ascending(DescGroups(h))[i]
               IN  ReadCall(PageListKey(h, g), kCidMetadata, h[g].fBytesOnStorage)]

\* RPageSourceDaos::AttachImpl. The anchor fetch may fail in the library
\* (rcAnchor); its return value is not looked at and the zeroed buffer is
\* decoded either way.
AttachImpl ==
    /\ srcState = "CONSTRUCTED"
    /\ \E rcAnchor \in {0, 0 - DER_INVAL} :
         LET anchorKey == MetadataKey(kAttributeKeyAnchor)
             fetched == ReadSingleAkey(writes, AnchorGetSize, anchorKey, kCidMetadata)
             anchorBuf == IF rcAnchor = 0 THEN fetched.buffer ELSE Zeroes(AnchorGetSize)
             decoded == AnchorDeserialize(anchorBuf, AnchorGetSize)
             anchorRead == <<ReadCall(anchorKey, kCidMetadata, AnchorGetSize)>>
         IN  IF ~decoded.ok
             THEN /\ srcState' = "ATTACH_FAILED"
                  /\ reads' = reads \o anchorRead
                  /\ UNCHANGED <<ntpl, srcObjectClass>>
             ELSE LET anchor == decoded.anchor
                      oclass == ObjClassId(ClassName(anchor.fObjClass))
                      issued == AttachReads(anchor, oclass, history)
                      Got(i) == ReadSingleAkey(writes, issued[i].length, issued[i].key, issued[i].cid).buffer
                  IN  /\ ntpl' = anchor
                      /\ reads' = reads \o anchorRead \o issued
                      /\ IF oclass = OC_UNKNOWN
                         THEN /\ srcState' = "ATTACH_FAILED"
                              /\ UNCHANGED srcObjectClass
                         ELSE /\ srcObjectClass' = SetDefaultObjectClass(srcObjectClass, oclass)
                              /\ srcState' =
                                   IF /\ Decodes(200, Got(1))
                                      /\ Decodes(210, Got(2))
                                      /\ \A i \in 3..Len(issued) : Decodes(220, Got(i))
                                   THEN "ATTACHED" ELSE "ATTACH_FAILED"
    /\ UNCHANGED <<loaded, clusterResult>>
    /\ UNCHANGED <<vvars, svars, uvars>>

\* RPageSourceDaos::LoadSealedPage for the page committed at history position a
LoadSealedPage(a) ==
    /\ srcState = "ATTACHED"
    /\ a \in DescPages(history)
    /\ a \notin DOMAIN loaded
    /\ LET pageInfo == history[a]
           key == GetDaosPageKey(DescClusterId(history, a), pageInfo.fColumnId, pageInfo.fPosition)
           read == ReadSingleAkey(writes, pageInfo.fBytesOnStorage, key, srcObjectClass)
       IN  /\ loaded' = (a :> [key |-> key, cid |-> srcObjectClass, fSize |-> pageInfo.fBytesOnStorage,
                               fBuffer |-> read.buffer]) @@ loaded
           /\ reads' = Append(reads, ReadCall(key, srcObjectClass, pageInfo.fBytesOnStorage))
    /\ UNCHANGED <<srcState, ntpl, srcObjectClass, clusterResult>>
    /\ UNCHANGED <<vvars, svars, uvars>>

\* No page source exists yet.
SourceIdle ==
    /\ srcState = "NONE"
    /\ ntpl = DefaultAnchor
    /\ srcObjectClass = OC_SX
    /\ loaded = EmptyMap
    /\ reads = <<>>
    /\ clusterResult = [outcome |-> "none", result |-> <<>>]

\* No single function call is under test.
UnitIdle ==
    /\ call = [fn |-> "none"]
    /\ result = [done |-> FALSE]

VecIdle ==
    /\ batch = <<>>
    /\ fn = "Fetch"
    /\ readRequests = EmptyMap
    /\ vec = <<>>
    /\ pc = "idle"
    /\ requests = <<>>
    /\ evs = EmptyMap
    /\ ret = 0
    /\ outcome = "none"
    /\ nIssued = 0
    /\ observed = FALSE
    /\ libRequests = <<>>

SinkInit ==
    /\ VecIdle
    /\ UnitIdle
    /\ SourceIdle
    /\ \E uri \in SampleURIs, cls \in SampleClasses : SinkConstructed(uri, cls)

SinkNext ==
    \/ CreateImpl
    \/ \E columnId \in ColumnIds, size \in PageSizes, o \in WriteOutcomes :
          CommitSealedPageImpl(columnId, size, o)
    \/ CommitClusterImpl
    \/ \E o \in WriteOutcomes : CommitClusterGroupImpl(1, o)
    \/ \E oFooter \in WriteOutcomes, oAnchor \in WriteOutcomes : CommitDatasetImpl(2, oFooter, oAnchor)

\* ------------------------------------------------ two committing threads
\* Two threads of the host inside CommitSealedPageImpl / CommitClusterGroupImpl
\* of one sink. Each statement of a commit that touches the sink's members is
\* one step; fOid.fetch_add(1) is a single atomic read-modify-write, the
\* update of fNBytesCurrentCluster is a plain load and a later store.
Threads == {1, 2}

ThreadIdle == [pc |-> "idle", kind |-> "none", offsetData |-> 0, clusterId |-> 0, bytes |-> 0]

ConcInit ==
    /\ VecIdle
    /\ SourceIdle
    /\ SinkConstructed(<<"d", "a", "o", "s", ":", "/", "/", "p", "/", "c">>, <<83, 88>>)
    /\ call = [fn |-> "concurrent"]
    /\ result = [done |-> FALSE, obtained |-> <<>>, th |-> [t \in Threads |-> ThreadIdle]]

\* auto offsetData = fOid.fetch_add(1), and for a page the cluster id read
\* from the descriptor builder.
Conc_FetchAdd(t, kind) ==
    /\ call.fn = "concurrent"
    /\ result.th[t].pc = "idle"
    /\ LifecycleAllows(sinkState, IF kind = "page" THEN "commitSealedPage" ELSE "commitClusterGroup")
    /\ Len(result.obtained) < MaxCommits
    /\ fOid' = FetchAdd(fOid)
    /\ result' = [result EXCEPT
          !.obtained = Append(@, [thread |-> t, offsetData |-> fOid]),
          !.th[t] = [pc |-> "fetched", kind |-> kind, offsetData |-> fOid, clusterId |-> nClusters,
                     bytes |-> 0]]
    /\ UNCHANGED <<fURI, optObjectClass, sinkState, sinkError, fDefaultObjectClass,
                   fNBytesCurrentCluster, nClusters, fNTupleAnchor, writes, history, libCalls, rejected>>
    /\ UNCHANGED <<call, vvars, rvars>>

\* WriteSingleAkey under the offset obtained; its result is not looked at.
\* For a page, fNBytesCurrentCluster is loaded afterwards.
Conc_Write(t, o) ==
    /\ call.fn = "concurrent"
    /\ result.th[t].pc = "fetched"
    /\ LET me == result.th[t]
           key == IF me.kind = "page"
                  THEN GetDaosPageKey(me.clusterId, 3, me.offsetData)
                  ELSE [oid |-> kOidPageList, dkey |-> kDistributionKeyMetadata, akey |-> U64(me.offsetData)]
       IN  IF o = "throw"
           THEN /\ SinkThrow("ObjectOpenFailed")
                /\ result' = [result EXCEPT !.th[t] = ThreadIdle]
                /\ UNCHANGED writes
           ELSE /\ writes' = Append(writes,
                      IF me.kind = "page"
                      THEN WriteRecord("CommitSealedPageImpl", key, fDefaultObjectClass, 1, o, "page",
                                       SealedBytes(me.offsetData, 1))
                      ELSE WriteRecord("CommitClusterGroupImpl", key, kCidMetadata, 1, o, "pagelist",
                                       ZipBytes(220, 1)))
                /\ result' = [result EXCEPT !.th[t].pc = "written", !.th[t].bytes = fNBytesCurrentCluster]
                /\ UNCHANGED <<sinkState, sinkError>>
    /\ UNCHANGED <<fURI, optObjectClass, fDefaultObjectClass, fOid, fNBytesCurrentCluster, nClusters,
                   fNTupleAnchor, history, libCalls, rejected>>
    /\ UNCHANGED <<call, vvars, rvars>>

\* The locator is returned; a page stores fNBytesCurrentCluster back.
Conc_Return(t) ==
    /\ call.fn = "concurrent"
    /\ result.th[t].pc = "written"
    /\ LET me == result.th[t]
       IN  /\ history' = Append(history,
                 IF me.kind = "page"
                 THEN [op |-> "page", fColumnId |-> 3, fPosition |-> me.offsetData, fBytesOnStorage |-> 1]
                 ELSE [op |-> "group", fPosition |-> me.offsetData, fBytesOnStorage |-> 1])
           /\ fNBytesCurrentCluster' = IF me.kind = "page" THEN me.bytes + 1 ELSE fNBytesCurrentCluster
    /\ result' = [result EXCEPT !.th[t] = ThreadIdle]
    /\ UNCHANGED <<fURI, optObjectClass, sinkState, sinkError, fDefaultObjectClass, fOid, nClusters,
                   fNTupleAnchor, writes, libCalls, rejected>>
    /\ UNCHANGED <<call, vvars, rvars>>

ConcNext ==
    \/ CreateImpl
    \/ \E t \in Threads, kind \in {"page", "group"} : Conc_FetchAdd(t, kind)
    \/ \E t \in Threads, o \in WriteOutcomes : Conc_Write(t, o)
    \/ \E t \in Threads : Conc_Return(t)

ConcSpec == ConcInit /\ [][ConcNext]_vars

\* A host that calls the sink's operations in any order, with one column and
\* one page size.
HostNext ==
    \/ CreateImpl
    \/ \E o \in WriteOutcomes : CommitSealedPageImpl(3, 2, o)
    \/ CommitClusterImpl
    \/ \E o \in WriteOutcomes : CommitClusterGroupImpl(1, o)
    \/ \E oFooter \in WriteOutcomes, oAnchor \in WriteOutcomes : CommitDatasetImpl(2, oFooter, oAnchor)
    \/ \E op \in SinkOps : IllegalCall(op)

HostSpec == SinkInit /\ [][HostNext]_vars

\* A sink run with one column and one page size, read back by a fresh source.
RoundTripNext ==
    \/ CreateImpl
    \/ \E o \in WriteOutcomes : CommitSealedPageImpl(3, 2, o)
    \/ CommitClusterImpl
    \/ \E o \in WriteOutcomes : CommitClusterGroupImpl(1, o)
    \/ \E oFooter \in WriteOutcomes, oAnchor \in WriteOutcomes : CommitDatasetImpl(2, oFooter, oAnchor)
    \/ SourceConstruct
    \/ AttachImpl
    \/ \E a \in 1..MaxCommits : LoadSealedPage(a)

RoundTripSpec == SinkInit /\ [][RoundTripNext]_vars

\* The host creates the sink first and commits the dataset last; a sink
\* operation that throws ends the run.
SinkSpec == SinkInit /\ [][SinkNext]_vars

\* ------------------------------------------------- single function calls
\* Codes a library call may return to a constructor.
CtorCodes == {0, 0 - DER_INVAL, 0 - DER_EXIST, DER_EXIST, 0 - 1, 1}

ContainerCalls ==
    [fn : {"RDaosContainer"}, create : BOOLEAN, rcCreate : CtorCodes, rcOpen : CtorCodes]

\* RDaosContainer::RDaosContainer(pool, label, create)
Call_RDaosContainer ==
    /\ call.fn = "RDaosContainer"
    /\ ~result.done
    /\ LET c == RDaosContainer_ctor(call.create, call.rcCreate, call.rcOpen)
       IN  result' = [done |-> TRUE, ok |-> c.ok, calls |-> c.calls]
    /\ UNCHANGED <<call, vvars, svars, rvars>>

\* Anchors to encode: field values of one to four significant bytes and class
\* names of length 0, 5 ("OC_SX") and kOCNameMaxLength.
AnchorNames == {<<>>, <<79, 67, 95, 83, 88>>, [i \in 1..kOCNameMaxLength |-> 65 + (i % 26)]}

AnchorCalls ==
    [fn : {"AnchorRoundTrip"},
     anchor : [fVersion : {0, 1}, fNBytesHeader : {128, 70000}, fLenHeader : {512, 16777217},
               fNBytesFooter : {64, 300}, fLenFooter : {256, 2147483647}, fObjClass : AnchorNames]]

\* Serialize into a buffer of the size Serialize(nullptr) reports, then
\* Deserialize that buffer.
Call_AnchorRoundTrip ==
    /\ call.fn = "AnchorRoundTrip"
    /\ ~result.done
    /\ LET size == AnchorSerializedSize(call.anchor)
           buffer == AnchorSerialize(call.anchor)
       IN  result' = [done |-> TRUE, size |-> size, buffer |-> buffer,
                      decoded |-> AnchorDeserialize(buffer, size),
                      reserved |-> AnchorGetSize,
                      fixedDecoded |-> AnchorDeserialize(AnchorBuffer(call.anchor), AnchorGetSize)]
    /\ UNCHANGED <<call, vvars, svars, rvars>>

\* Deserialize on the 88-byte buffer of a written anchor, told that only
\* the first bufSize bytes are there.
DeserializeCalls ==
    [fn : {"AnchorDeserialize"},
     buffer : {AnchorBuffer([DefaultAnchor EXCEPT !.fVersion = 1, !.fNBytesHeader = 128, !.fObjClass = name]) :
                 name \in AnchorNames \ {<<>>}},
     bufSize : 0..30]

Call_AnchorDeserialize ==
    /\ call.fn = "AnchorDeserialize"
    /\ ~result.done
    /\ result' = [done |-> TRUE, decoded |-> AnchorDeserialize(call.buffer, call.bufSize)]
    /\ UNCHANGED <<call, vvars, svars, rvars>>

\* URIs handed to a sink or a source: well formed ones and ones with the
\* container label, the pool label or the scheme missing.
UnitURIs ==
    {<<"d", "a", "o", "s", ":", "/", "/", "p", "/", "c">>,
     <<"d", "a", "o", "s", ":", "/", "/", "p", "/", "c", "/", "d">>,
     <<"d", "a", "o", "s", ":", "/", "/", "o", "n", "l", "y", "p", "o", "o", "l">>,
     <<"d", "a", "o", "s", ":", "/", "/", "p", "/">>,
     <<"d", "a", "o", "s", ":", "/", "/", "/", "c">>,
     <<"f", "i", "l", "e", ":", "/", "/", "p", "/", "c">>,
     <<>>}

OpenCalls ==
    [fn : {"SinkOpen", "SourceOpen"}, uri : UnitURIs, cls : SampleClasses,
     rcConnect : {0, 0 - DER_INVAL}, rcOpen : {0, 0 - DER_INVAL}]

\* The sink's create up to the open container, or the source's constructor,
\* on the given URI.
Call_Open ==
    /\ call.fn \in {"SinkOpen", "SourceOpen"}
    /\ ~result.done
    /\ LET pool == RDaosPool_ctor(call.rcConnect, 0)
           opened == IF call.fn = "SinkOpen"
                     THEN CreateImplOpen(ObjClassId(ClassName(call.cls)), ParseDaosURI(call.uri), pool,
                                         RDaosContainer_ctor(TRUE, 0, call.rcOpen))
                     ELSE SourceOpen(ParseDaosURI(call.uri), pool, RDaosContainer_ctor(FALSE, 0, call.rcOpen))
       IN  result' = [done |-> TRUE, error |-> opened.error, calls |-> opened.calls]
    /\ UNCHANGED <<call, vvars, svars, rvars>>

\* FetchUpdateArgs as an object in memory. The object lives at address `at`;
\* each of its vectors has a heap buffer, named by a number, that a vector
\* move hands over and a vector copy does not. A pointer to a member is
\* [obj, member], a pointer to a vector element is [heap, index].
\* The constructor takes over the buffers of `as` (heap 10) and `vs` (heap
\* 11) and fills fIods (heap 12) and fSgls (heap 13).
FetchUpdateArgs_ctor(at, d, as, vs, is_async) ==
    LET a == FetchUpdateArgs(d, as, vs, is_async)
    IN  [at |-> at, fDkey |-> d, fIsAsync |-> is_async,
         fDistributionKey |-> [iov_buf |-> [obj |-> at, member |-> "fDkey"], iov_len |-> 8],
         fAkeys |-> [heap |-> 10, elems |-> a.fAkeys],
         fIovs |-> [heap |-> 11, elems |-> a.fIovs],
         fIods |-> [heap |-> 12,
                    elems |-> [i \in 1..Len(a.fIods) |->
                                 [a.fIods[i] EXCEPT !.iod_name = [heap |-> 10, index |-> a.fIods[i].iod_name]]]],
         fSgls |-> [heap |-> 13,
                    elems |-> [i \in 1..Len(a.fSgls) |->
                                 [a.fSgls[i] EXCEPT !.sg_iovs = [heap |-> 11, index |-> a.fSgls[i].sg_iovs]]]]]

\* FetchUpdateArgs(FetchUpdateArgs &&fua) constructing the object at `at`:
\* the vectors are moved, fDkey is copied, and the key pointers are set again.
FetchUpdateArgs_move_CopiesIovs(fua, at) ==
    [at |-> at, fDkey |-> fua.fDkey, fIsAsync |-> fua.fIsAsync,
     fDistributionKey |-> [iov_buf |-> [obj |-> at, member |-> "fDkey"], iov_len |-> 8],
     fAkeys |-> fua.fAkeys,
     fIovs |-> [heap |-> 100 + at, elems |-> fua.fIovs.elems],
     fIods |-> [heap |-> fua.fIods.heap,
                elems |-> [i \in 1..Len(fua.fIods.elems) |->
                             IF i <= Len(fua.fAkeys.elems)
                             THEN [fua.fIods.elems[i] EXCEPT !.iod_name = [heap |-> fua.fAkeys.heap, index |-> i]]
                             ELSE fua.fIods.elems[i]]],
     fSgls |-> fua.fSgls]

FetchUpdateArgs_move(fua, at) ==
    [at |-> at, fDkey |-> fua.fDkey, fIsAsync |-> fua.fIsAsync,
     fDistributionKey |-> [iov_buf |-> [obj |-> at, member |-> "fDkey"], iov_len |-> 8],
     fAkeys |-> fua.fAkeys,
     fIovs |-> fua.fIovs,
     fIods |-> [heap |-> fua.fIods.heap,
                elems |-> [i \in 1..Len(fua.fIods.elems) |->
                             IF i <= Len(fua.fAkeys.elems)
                             THEN [fua.fIods.elems[i] EXCEPT !.iod_name = [heap |-> fua.fAkeys.heap, index |-> i]]
                             ELSE fua.fIods.elems[i]]],
     fSgls |-> fua.fSgls]

\* Requests of one to MaxOps akeys with buffers of either length, built in
\* place or moved once (into the tuple) or twice (into the vector).
ArgsCalls ==
    UNION {[fn : {"FetchUpdateArgs"}, d : {1, 2}, as : {[i \in 1..n |-> 10 + i]},
            vs : [1..n -> [iov_buf : {0}, iov_len : {1, 2}]], is_async : BOOLEAN, moves : 0..2] :
           n \in 1..MaxOps}

Call_FetchUpdateArgs ==
    /\ call.fn = "FetchUpdateArgs"
    /\ ~result.done
    /\ LET built == FetchUpdateArgs_ctor(1, call.d, call.as, call.vs, call.is_async)
           once == FetchUpdateArgs_move(built, 2)
           twice == FetchUpdateArgs_move(once, 3)
       IN  result' = [done |-> TRUE,
                      args |-> IF call.moves = 0 THEN built ELSE IF call.moves = 1 THEN once ELSE twice]
    /\ UNCHANGED <<call, vvars, svars, rvars>>

\* RDaosSealedPageLocator(columnId, pageNo, objectId, size, bufPos)
RDaosSealedPageLocator(columnId, pageNo, objectId, size, bufPos) ==
    [fColumnId |-> columnId, fPageNo |-> pageNo, fObjectId |-> objectId, fSize |-> size, fBufPos |-> bufPos]

\* szPayload += pageLocator.fBytesOnStorage
AdvancePayload_PerPageReset(szPayload, fBytesOnStorage) == fBytesOnStorage

AdvancePayload(szPayload, fBytesOnStorage) == szPayload + fBytesOnStorage

\* The inner loop of LoadClusters over the page infos of one column, from
\* page number pageNo on: acc holds onDiskPages and szPayload so far.
RECURSIVE CollectColumn(_, _, _, _)
CollectColumn(columnId, fPageInfos, pageNo, acc) ==
    IF pageNo >= Len(fPageInfos) THEN acc
    ELSE LET pageLocator == fPageInfos[pageNo + 1]
         IN  CollectColumn(columnId, fPageInfos, pageNo + 1,
                [onDiskPages |-> Append(acc.onDiskPages,
                     RDaosSealedPageLocator(columnId, pageNo, pageLocator.fPosition,
                                            pageLocator.fBytesOnStorage, acc.szPayload)),
                 szPayload |-> AdvancePayload(acc.szPayload, pageLocator.fBytesOnStorage)])

\* The outer loop over the columns of the cluster key, in the iteration order
\* of the column set.
RECURSIVE CollectPages(_, _, _, _)
CollectPages(clusterDesc, fColumnSet, k, acc) ==
    IF k > Len(fColumnSet) THEN acc
    ELSE CollectPages(clusterDesc, fColumnSet, k + 1,
                      CollectColumn(fColumnSet[k], clusterDesc[fColumnSet[k]], 0, acc))

\* LoadClusters for one cluster up to the ReadV call: the pages found, the
\* buffer size, one read (key and iov into the buffer) per page, and the
\* page map's entries.
LoadClustersPrepare(clusterId, clusterDesc, fColumnSet) ==
    LET found == CollectPages(clusterDesc, fColumnSet, 1, [onDiskPages |-> <<>>, szPayload |-> 0])
        onDiskPages == found.onDiskPages
    IN  [onDiskPages |-> onDiskPages,
         szPayload |-> found.szPayload,
         reads |-> [i \in 1..Len(onDiskPages) |->
                      [key |-> GetDaosPageKey(clusterId, onDiskPages[i].fColumnId, onDiskPages[i].fObjectId),
                       iov |-> [iov_buf |-> onDiskPages[i].fBufPos, iov_len |-> onDiskPages[i].fSize]]],
         pageMap |-> {[key |-> <<onDiskPages[i].fColumnId, onDiskPages[i].fPageNo>>,
                       page |-> [fAddress |-> onDiskPages[i].fBufPos, fSize |-> onDiskPages[i].fSize]] :
                      i \in 1..Len(onDiskPages)}]

\* Page ranges of a column: up to MaxPages pages of one or two bytes; the
\* page at index j of column c was committed at offset 2 * j + (c % 2).
PageRanges(c) ==
    UNION {{[j \in 1..n |-> [fPosition |-> 2 * j + (c % 2), fBytesOnStorage |-> sizes[j]]] :
              sizes \in [1..n -> PageSizes]} : n \in 0..MaxPages}

ClusterCalls ==
    [fn : {"LoadClusters"}, clusterId : {0, 1},
     clusterDesc : {(0 :> r0) @@ (3 :> r3) : r0 \in PageRanges(0), r3 \in PageRanges(3)},
     fColumnSet : {<<0>>, <<3>>, <<0, 3>>, <<3, 0>>}]

Call_LoadClusters ==
    /\ call.fn = "LoadClusters"
    /\ ~result.done
    /\ result' = [done |-> TRUE,
                  prepared |-> LoadClustersPrepare(call.clusterId, call.clusterDesc, call.fColumnSet)]
    /\ UNCHANGED <<call, vvars, svars, rvars>>

\* if (int err = daos_xxx(...) < 0) throw RException(... d_errstr(err)):
\* err is initialised with the comparison's value, 1 when the library's code
\* rc is negative and 0 otherwise. The operation throws with d_errstr(err)
\* when err is non-zero and returns 0 otherwise.
EventQueueOp(rc) ==
    LET err == IF rc < 0 THEN 1 ELSE 0
    IN  IF err # 0 THEN [threw |-> TRUE, code |-> err] ELSE [threw |-> FALSE, ret |-> 0]

\* DaosEventQueue::PollEvent when daos_event_test answers rcTest with the flag
\* set and daos_event_fini answers rcFini: the loop's test, then
\* FinalizeEvent, whose result is returned.
PollEvent(rcTest, rcFini) ==
    IF EventQueueOp(rcTest).threw THEN EventQueueOp(rcTest) ELSE EventQueueOp(rcFini)

EventQueueCalls ==
    [fn : {"Initialize", "InitializeEvent", "LaunchParentBarrier", "FinalizeEvent", "Destroy"},
     rc : LibRc]
    \cup [fn : {"PollEvent"}, rc : LibRc, rcFini : LibRc]

Call_EventQueue ==
    /\ call.fn \in {"Initialize", "InitializeEvent", "LaunchParentBarrier", "FinalizeEvent", "Destroy", "PollEvent"}
    /\ ~result.done
    /\ result' = [done |-> TRUE,
                  raised |-> IF call.fn = "PollEvent" THEN PollEvent(call.rc, call.rcFini)
                             ELSE EventQueueOp(call.rc)]
    /\ UNCHANGED <<call, vvars, svars, rvars>>

UnitCalls ==
    EventQueueCalls \cup ContainerCalls \cup AnchorCalls \cup DeserializeCalls \cup OpenCalls \cup ArgsCalls \cup ClusterCalls

UnitInit ==
    /\ VecIdle
    /\ SinkConstructed(<<"d", "a", "o", "s", ":", "/", "/", "p", "/", "c">>, <<83, 88>>)
    /\ call \in UnitCalls
    /\ result = [done |-> FALSE]
    /\ SourceIdle

UnitNext ==
    \/ Call_RDaosContainer
    \/ Call_AnchorRoundTrip
    \/ Call_AnchorDeserialize
    \/ Call_Open
    \/ Call_FetchUpdateArgs
    \/ Call_LoadClusters
    \/ Call_EventQueue

UnitSpec == UnitInit /\ [][UnitNext]_vars

Init ==
    /\ SinkConstructed(<<"d", "a", "o", "s", ":", "/", "/", "p", "/", "c">>, <<83, 88>>)
    /\ UnitIdle
    /\ SourceIdle
    /\ batch \in Batches
    /\ fn \in {"Fetch", "Update"}
    /\ readRequests = EmptyMap
    /\ vec = <<>>
    /\ pc = "prepare"
    /\ requests = <<>>
    /\ evs = EmptyMap
    /\ ret = 0
    /\ outcome = "none"
    /\ nIssued = 0
    /\ observed = FALSE
    /\ libRequests = <<>>

\* How often a call site invokes Fetch/Update for one request when the first
\* invocation returned rc: once, there is no loop around the call.
Attempts_RetryOnError(rc) == IF rc < 0 THEN 2 ELSE 1

Attempts(rc) == 1

\* RDaosContainer::ReadSingleAkey / WriteSingleAkey for a one-page batch: a
\* synchronous Fetch or Update on a temporary object, its code returned.
SingleAkey ==
    /\ pc = "prepare"
    /\ Len(batch) = 1
    /\ LET op == batch[1]
           args == FetchUpdateArgs(op.dkey, <<op.akey>>, <<op.iov>>, FALSE)
       IN \E rcOpen \in LibRc, rcFn \in LibRc :
            IF rcOpen # 0
            THEN Throw /\ UNCHANGED <<nIssued, libRequests>>
            ELSE /\ libRequests' = Append(libRequests, LibRequest(fn, op.oid, args, 1, rcFn))
                 /\ nIssued' = nIssued + Attempts(rcFn)
                 /\ pc' = "done"
                 /\ ret' = rcFn
                 /\ outcome' = "return_single"
    /\ UNCHANGED <<svars, uvars, rvars>>
    /\ UNCHANGED <<batch, fn, readRequests, vec, requests, evs, observed>>

\* The caller builds one RWOperation per (oid, dkey).
PrepareRequests ==
    /\ pc = "prepare"
    /\ readRequests' = Coalesce(batch)
    /\ pc' = "readv"
    /\ UNCHANGED <<svars, uvars, rvars>>
    /\ UNCHANGED <<batch, fn, vec, requests, evs, ret, outcome, nIssued, observed, libRequests>>

\* ReadV / WriteV hand the operations over in the map's iteration order.
ReadV_WriteV ==
    /\ pc = "readv"
    /\ \E order \in Orders(DOMAIN readRequests) :
          vec' = [i \in 1..Len(order) |-> readRequests[order[i]]]
    /\ pc' = "begin"
    /\ UNCHANGED <<svars, uvars, rvars>>
    /\ UNCHANGED <<batch, fn, readRequests, requests, evs, ret, outcome, nIssued, observed, libRequests>>

\* requests{}; InitializeEvent(&parent_event)
VRW_Begin ==
    /\ pc = "begin"
    /\ \E rc \in LibRc :
          IF rc < 0
          THEN Throw /\ UNCHANGED evs
          ELSE /\ evs' = (0 :> NewEvent(0 - 1))
               /\ pc' = "loop"
               /\ UNCHANGED <<ret, outcome>>
    /\ UNCHANGED <<svars, uvars, rvars>>
    /\ UNCHANGED <<batch, fn, readRequests, vec, requests, nIssued, observed, libRequests>>

\* for (size_t i = 0; i < vec.size(); ++i): the loop is left when i, the
\* number of requests pushed so far, has reached vec.size().
DispatchLoopDone_AfterFirst(i, size) == i >= 1 \/ size = 0

DispatchLoopDone(i, size) == ~(i < size)

\* LaunchParentBarrier throws when daos_event_parent_barrier returned rc.
LaunchParentBarrierThrows_Never(rc) == FALSE

LaunchParentBarrierThrows(rc) == rc < 0

\* One iteration of the dispatch loop.
VRW_Dispatch ==
    /\ pc = "loop"
    /\ ~DispatchLoopDone(Len(requests), Len(vec))
    /\ LET i == Len(requests) + 1
           op == vec[i]
           args == FetchUpdateArgs(op.fDistributionKey, op.fAttributeKeys, op.fIovs, TRUE)
       IN \E rcOpen \in LibRc, rcInit \in LibRc, rcFn \in LibRc :
            IF rcOpen # 0
            THEN \* daos_obj_open failed: RDaosObject's constructor throws
                 Throw /\ UNCHANGED <<requests, evs, nIssued, libRequests>>
            ELSE IF rcInit < 0
            THEN \* daos_event_init of the child failed: InitializeEvent throws
                 /\ Throw
                 /\ requests' = Append(requests, [oid |-> op.fOid, args |-> args, rc |-> 0, issued |-> FALSE])
                 /\ UNCHANGED <<evs, nIssued, libRequests>>
            ELSE /\ requests' = Append(requests,
                        [oid |-> op.fOid, args |-> ApplyFn(fn, args), rc |-> rcFn, issued |-> TRUE])
                 /\ libRequests' = Append(libRequests, LibRequest(fn, op.fOid, args, i, rcFn))
                 /\ nIssued' = nIssued + Attempts(rcFn)
                 /\ evs' = (i :> [NewEvent(0) EXCEPT !.status = IF rcFn < 0 THEN "ready" ELSE "running"]) @@ evs
                 /\ IF DispatchAbort(rcFn)
                    THEN /\ pc' = "done"
                         /\ ret' = rcFn
                         /\ outcome' = "return_dispatch"
                    ELSE UNCHANGED <<pc, ret, outcome>>
    /\ UNCHANGED <<svars, uvars, rvars>>
    /\ UNCHANGED <<batch, fn, readRequests, vec, observed>>

\* LaunchParentBarrier(&parent_event) after the loop.
VRW_LaunchParentBarrier ==
    /\ pc = "loop"
    /\ DispatchLoopDone(Len(requests), Len(vec))
    /\ \E rc \in BarrierRcs(evs) :
          IF LaunchParentBarrierThrows(rc)
          THEN Throw /\ UNCHANGED evs
          ELSE /\ evs' = [evs EXCEPT ![0].barrier = TRUE, ![0].status = "running"]
               /\ pc' = "poll"
               /\ UNCHANGED <<ret, outcome>>
    /\ UNCHANGED <<svars, uvars, rvars>>
    /\ UNCHANGED <<batch, fn, readRequests, vec, requests, nIssued, observed, libRequests>>

\* One iteration of PollEvent's loop on the parent, with the library's test
\* returning rcTest; when the loop is left, FinalizeEvent and return.
VRW_PollEvent(rcTest) ==
    /\ pc = "poll"
    /\ IF rcTest < 0
       THEN Throw /\ UNCHANGED <<evs, observed>>
       ELSE LET flag == EventTestFlag(evs)
            IN IF ~PollEventLoopExit(flag)
               THEN UNCHANGED <<pc, ret, outcome, evs, observed>>
               ELSE /\ observed' = TRUE
                    /\ \E rcFini \in LibRc :
                         IF rcFini < 0
                         THEN Throw /\ UNCHANGED evs
                         ELSE /\ evs' = [evs EXCEPT ![0].status = "fini"]
                              /\ ret' = 0
                              /\ outcome' = "return_poll"
                              /\ pc' = "done"
    /\ UNCHANGED <<svars, uvars, rvars>>
    /\ UNCHANGED <<batch, fn, readRequests, vec, requests, nIssued, libRequests>>

\* The library completes a dispatched request with status rc; the first
\* failure of a child is recorded in the parent's ev_error.
DaosChildComplete(k, rc) ==
    /\ k \in DOMAIN evs
    /\ k # 0
    /\ evs[k].status = "running"
    /\ evs' = [evs EXCEPT ![k].status = "completed", ![k].error = rc,
                          ![0].error = IF @ = 0 THEN rc ELSE @]
    /\ UNCHANGED <<svars, uvars, rvars>>
    /\ UNCHANGED <<batch, fn, readRequests, vec, pc, requests, ret, outcome, nIssued, observed, libRequests>>

\* if (int err = fDaosContainer->ReadV(readRequests)) throw ...
LoadClustersFails_OnlyPositive(err) == err > 0

LoadClustersFails(err) == err # 0

\* RPageSourceDaos::LoadClusters for one cluster key, from the return of
\* ReadV on: an exception of ReadV passes through, a non-zero result is
\* thrown, else the cluster is appended to the result and returned.
LoadClusters_AfterReadV ==
    /\ pc = "done"
    /\ fn = "Fetch"
    /\ outcome # "return_single"
    /\ clusterResult.outcome = "none"
    /\ clusterResult' =
          IF outcome = "throw" \/ LoadClustersFails(ret)
          THEN [outcome |-> "throw", result |-> <<>>]
          ELSE [outcome |-> "return", result |-> <<[fClusterId |-> 0, pages |-> {batch[i].akey : i \in 1..Len(batch)}]>>]
    /\ UNCHANGED <<srcState, ntpl, srcObjectClass, loaded, reads>>
    /\ UNCHANGED <<vvars, svars, uvars>>

\* The block inside VectorReadWrite that owns `requests` (the objects and
\* their FetchUpdateArgs, child events included) and `parent_event`: they
\* exist from the block's entry until a return or an exception leaves it.
LocalsInScope == pc \in {"loop", "poll"}

Next ==
    \/ SingleAkey
    \/ PrepareRequests
    \/ LoadClusters_AfterReadV
    \/ ReadV_WriteV
    \/ VRW_Begin
    \/ VRW_Dispatch
    \/ VRW_LaunchParentBarrier
    \/ \E rcTest \in LibRc : VRW_PollEvent(rcTest)
    \/ \E k \in 1..(MaxOps + 1), rc \in LibRc : DaosChildComplete(k, rc)

Spec == Init /\ [][Next]_vars

\* The library eventually completes every dispatched request, and the caller's
\* thread keeps spinning in PollEvent.
LiveSpec ==
    /\ Spec
    /\ WF_vars(VRW_PollEvent(0))
    /\ WF_vars(\E k \in 1..(MaxOps + 1), rc \in LibRc : DaosChildComplete(k, rc))

\* --------------------------------------- two vectored calls on one queue
\* Two threads, each inside VectorReadWrite of its own container; both
\* containers hold the same pool, so every InitializeEvent attaches to the one
\* fPool->fEventQueue.fQueue. A step is one library call. An event is named by
\* its address: <<t, 0>> is parent_event in the frame of caller t, <<t, i>> the
\* fEvent of its i-th request; <<0, 0>> is the null pointer.
Callers == {1, 2}

NullEvent == <<0, 0>>

ParentEvent(t) == <<t, 0>>

ChildEvent(t, i) == <<t, i>>

\* The argument of PollEvent at the end of VectorReadWrite: &parent_event.
PolledEvent_OfFirstCaller(t) == ParentEvent(1)

PolledEvent(t) == ParentEvent(t)

\* The events of queue q initialised with parent p.
QueueChildren(q, p) == {e \in DOMAIN q : q[e].parent = p}

\* The flag daos_event_test reports for event ev: a parent is complete when
\* its barrier was launched and each of its children has completed.
QueueEventTest(q, ev) ==
    /\ ev \in DOMAIN q
    /\ q[ev].barrier
    /\ \A c \in QueueChildren(q, ev) : q[c].status = "completed"

CallerIdle == [pc |-> "idle", size |-> 0, rcs |-> <<>>, ret |-> 0, outcome |-> "none"]

CallerThrow(me) == [me EXCEPT !.pc = "done", !.outcome = "throw"]

PoolInit ==
    /\ VecIdle
    /\ SourceIdle
    /\ SinkConstructed(<<"d", "a", "o", "s", ":", "/", "/", "p", "/", "c">>, <<83, 88>>)
    /\ call = [fn |-> "VectorReadWrite"]
    /\ result = [done |-> FALSE, fQueue |-> EmptyMap, th |-> [t \in Callers |-> CallerIdle]]

\* requests{}; requests.reserve(vec.size()); InitializeEvent(&parent_event)
Pool_Begin(t, size, rc) ==
    /\ call.fn = "VectorReadWrite"
    /\ result.th[t].pc = "idle"
    /\ result' =
          IF rc < 0
          THEN [result EXCEPT !.th[t] = CallerThrow(@)]
          ELSE [result EXCEPT !.fQueue = (ParentEvent(t) :> NewEvent(NullEvent)) @@ @,
                              !.th[t].pc = "loop",
                              !.th[t].size = size]
    /\ UNCHANGED <<call, vvars, svars, rvars>>

\* One iteration of the dispatch loop of caller t.
Pool_Dispatch(t, rcOpen, rcInit, rcFn) ==
    /\ call.fn = "VectorReadWrite"
    /\ LET me == result.th[t]
           i == Len(me.rcs) + 1
       IN /\ me.pc = "loop"
          /\ ~DispatchLoopDone(Len(me.rcs), me.size)
          /\ result' =
                IF rcOpen # 0 \/ rcInit < 0
                THEN [result EXCEPT !.th[t] = CallerThrow(@)]
                ELSE [result EXCEPT
                        !.fQueue = (ChildEvent(t, i) :>
                                      [NewEvent(ParentEvent(t)) EXCEPT
                                          !.status = IF rcFn < 0 THEN "ready" ELSE "running"]) @@ @,
                        !.th[t] = IF DispatchAbort(rcFn)
                                  THEN [me EXCEPT !.rcs = Append(@, rcFn), !.pc = "done",
                                                  !.ret = rcFn, !.outcome = "return_dispatch"]
                                  ELSE [me EXCEPT !.rcs = Append(@, rcFn)]]
    /\ UNCHANGED <<call, vvars, svars, rvars>>

\* LaunchParentBarrier(&parent_event) of caller t after its loop.
Pool_LaunchParentBarrier(t, rc) ==
    /\ call.fn = "VectorReadWrite"
    /\ LET me == result.th[t]
       IN /\ me.pc = "loop"
          /\ DispatchLoopDone(Len(me.rcs), me.size)
          /\ QueueChildren(result.fQueue, ParentEvent(t)) = {} => rc = 0 - DER_INVAL
          /\ result' =
                IF LaunchParentBarrierThrows(rc)
                THEN [result EXCEPT !.th[t] = CallerThrow(@)]
                ELSE [result EXCEPT !.fQueue[ParentEvent(t)].barrier = TRUE,
                                    !.fQueue[ParentEvent(t)].status = "running",
                                    !.th[t].pc = "poll"]
    /\ UNCHANGED <<call, vvars, svars, rvars>>

\* One iteration of PollEvent's loop of caller t; when the loop is left,
\* FinalizeEvent and return.
Pool_PollEvent(t, rcTest, rcFini) ==
    /\ call.fn = "VectorReadWrite"
    /\ result.th[t].pc = "poll"
    /\ result' =
          IF rcTest < 0
          THEN [result EXCEPT !.th[t] = CallerThrow(@)]
          ELSE IF ~PollEventLoopExit(QueueEventTest(result.fQueue, PolledEvent(t)))
          THEN result
          ELSE IF rcFini < 0
          THEN [result EXCEPT !.th[t] = CallerThrow(@)]
          ELSE [result EXCEPT !.fQueue[PolledEvent(t)].status = "fini",
                              !.th[t].pc = "done",
                              !.th[t].ret = 0,
                              !.th[t].outcome = "return_poll"]
    /\ UNCHANGED <<call, vvars, svars, rvars>>

\* The library completes a dispatched request of either caller with status
\* rc; the first failure is recorded in the ev_error of that request's parent.
Pool_ChildComplete(e, rc) ==
    /\ call.fn = "VectorReadWrite"
    /\ e \in DOMAIN result.fQueue
    /\ result.fQueue[e].parent # NullEvent
    /\ result.fQueue[e].status = "running"
    /\ LET p == result.fQueue[e].parent
       IN result' = [result EXCEPT !.fQueue[e].status = "completed",
                                   !.fQueue[e].error = rc,
                                   !.fQueue[p].error = IF @ = 0 THEN rc ELSE @]
    /\ UNCHANGED <<call, vvars, svars, rvars>>

PoolNext ==
    \/ \E t \in Callers, size \in 0..MaxVec, rc \in LibRc : Pool_Begin(t, size, rc)
    \/ \E t \in Callers, rcOpen \in LibRc, rcInit \in LibRc, rcFn \in LibRc :
          Pool_Dispatch(t, rcOpen, rcInit, rcFn)
    \/ \E t \in Callers, rc \in LibRc : Pool_LaunchParentBarrier(t, rc)
    \/ \E t \in Callers, rcTest \in LibRc, rcFini \in LibRc : Pool_PollEvent(t, rcTest, rcFini)
    \/ \E t \in Callers, i \in 1..MaxVec, rc \in LibRc : Pool_ChildComplete(ChildEvent(t, i), rc)

PoolSpec == PoolInit /\ [][PoolNext]_vars

\* ------------------------------------------------------------------------
\* Claims about the vectored call
\* ------------------------------------------------------------------------
OpKey(s) == <<s.oid, s.dkey>>

BatchKeySet == {OpKey(batch[i]) : i \in 1..Len(batch)}

RequestKey(r) == <<r.oid, r.args.fDkey>>

\* Positions of the batch's operations on key K, in submission order.
PositionsOf(b, K) ==
    LET Test(i) == OpKey(b[i]) = K
    IN  SelectSeq([i \in 1..Len(b) |-> i], Test)

\* The dispatch loop ran to its end: every bucket was dispatched without error.
LoopCompleted ==
    /\ pc \in {"loop", "poll", "done"}
    /\ 0 \in DOMAIN evs
    /\ Len(requests) = Len(vec)
    /\ \A k \in 1..Len(requests) : requests[k].issued /\ requests[k].rc = 0

C2_ChildFailureGivesNonZeroResult ==
    (outcome = "return_poll" /\ \E k \in Children(evs) : evs[k].error < 0) => ret # 0

C4_OneRequestPerOidDkey ==
    /\ \A k1, k2 \in 1..Len(requests) :
          k1 # k2 => RequestKey(requests[k1]) # RequestKey(requests[k2])
    /\ {RequestKey(requests[k]) : k \in 1..Len(requests)} \subseteq BatchKeySet
    /\ nIssued <= Cardinality(BatchKeySet)
    /\ LoopCompleted =>
          /\ nIssued = Cardinality(BatchKeySet)
          /\ {RequestKey(requests[k]) : k \in 1..Len(requests)} = BatchKeySet
          /\ Children(evs) = 1..Len(requests)
          /\ Cardinality({e \in DOMAIN evs : evs[e].parent < 0}) = 1

C4_Witness ==
    /\ LoopCompleted
    /\ pc = "poll"
    /\ Len(batch) = 3
    /\ Cardinality(BatchKeySet) = 2
    /\ nIssued = 2

\* C5: in every request, the akeys are those of the batch's operations on
\* the request's (oid, dkey), in submission order; descriptor i is named by
\* akey i, scatter-gather entry i holds the buffer submitted with akey i, and
\* on update record size i is the length of that buffer.
C5_AkeyOrderAndBufferAlignment ==
    \A k \in 1..Len(requests) :
        LET a == requests[k].args
            idx == PositionsOf(batch, RequestKey(requests[k]))
        IN  /\ Len(a.fAkeys) = Len(idx)
            /\ Len(a.fIods) = Len(idx)
            /\ Len(a.fSgls) = Len(idx)
            /\ \A j \in 1..Len(idx) :
                  /\ a.fAkeys[j] = batch[idx[j]].akey
                  /\ a.fAkeys[a.fIods[j].iod_name] = batch[idx[j]].akey
                  /\ a.fIovs[a.fSgls[j].sg_iovs] = batch[idx[j]].iov
                  /\ a.fSgls[j].sg_nr = 1
                  /\ fn = "Update" => a.fIods[j].iod_size = batch[idx[j]].iov.iov_len

C5_Witness ==
    /\ fn = "Update"
    /\ \E k \in 1..Len(requests) :
          /\ requests[k].issued
          /\ Len(requests[k].args.fAkeys) = 2
          /\ requests[k].args.fIods[1].iod_size # requests[k].args.fIods[2].iod_size

\* Permutations of 1..Len(b) that keep the relative order of the operations
\* of every (oid, dkey) bucket.
StablePerms(b) ==
    {p \in [1..Len(b) -> 1..Len(b)] :
        /\ \A i, j \in 1..Len(b) : i # j => p[i] # p[j]
        /\ \A i, j \in 1..Len(b) :
              (i < j /\ OpKey(b[p[i]]) = OpKey(b[p[j]])) => p[i] < p[j]}

Permuted(b, p) == [i \in 1..Len(b) |-> b[p[i]]]

\* C6: coalescing any permutation of the batch that keeps the order inside
\* each (oid, dkey) bucket gives the buckets coalescing the batch gave: the
\* same keys, each with the same akeys.
C6_CoalescingPermutationInvariant ==
    pc = "readv" =>
        \A p \in StablePerms(batch) :
            LET m == Coalesce(Permuted(batch, p))
            IN  /\ DOMAIN m = DOMAIN readRequests
                /\ \A key \in DOMAIN m :
                      m[key].fAttributeKeys = readRequests[key].fAttributeKeys

C6_Witness ==
    /\ pc = "readv"
    /\ Len(batch) = 3
    /\ Cardinality(DOMAIN readRequests) = 2
    /\ \E p \in StablePerms(batch) : Permuted(batch, p) # batch

\* C7: a vectored call on an empty batch, once the library has accepted its
\* parent event, returns 0: it neither fails nor blocks.
C7_EmptyBatchReturnsZero ==
    (batch = <<>> /\ 0 \in DOMAIN evs /\ pc \in {"poll", "done"}) =>
        (outcome \in {"return_poll", "return_dispatch"} /\ ret = 0)

\* C8: polling the parent terminates: once the call polls the parent, and the
\* library completing every dispatched request, PollEvent leaves its loop and
\* the vectored call ends.
C8_PollTerminates == (pc = "poll") ~> (pc = "done")

C8_Witness ==
    /\ pc = "done"
    /\ outcome = "return_poll"
    /\ observed
    /\ Len(requests) = 3

\* --------------------------------------------------------- sink claims
IndexesOf(opname) == {i \in 1..Len(history) : history[i].op = opname}

\* Members of the index set `groups` strictly between a and b.
GroupsBetween(groups, a, b) == Cardinality({g \in groups : a < g /\ g < b})

\* a and b are neighbours in the index set `pages`.
ConsecutivePages(pages, a, b) ==
    /\ a < b
    /\ \A c \in pages : ~(a < c /\ c < b)

\* C9: two consecutive commitSealedPage calls on one sink return strictly
\* increasing positions, and the second position is the first plus one plus
\* the number of commitClusterGroup calls made between the two.
C9_MonotonicOffsets ==
    LET pages == IndexesOf("page")
        groups == IndexesOf("group")
    IN  \A a \in pages, b \in pages :
            ConsecutivePages(pages, a, b) =>
                /\ history[a].fPosition < history[b].fPosition
                /\ history[b].fPosition - history[a].fPosition = 1 + GroupsBetween(groups, a, b)

C9_Witness ==
    /\ Len(history) = 3
    /\ history[1].op = "page" /\ history[2].op = "group" /\ history[3].op = "page"
    /\ history[1].fPosition = 0 /\ history[3].fPosition = 2

KeyOf(w) == [oid |-> w.oid, dkey |-> w.dkey, akey |-> w.akey]

\* C10: a write under the anchor key is the last write of the run, is issued
\* by commitDataset right after that call's footer write, and comes after the
\* header write and after every page and page-list write.
C10_AnchorWrittenLast ==
    \A i \in 1..Len(writes) :
        (KeyOf(writes[i]) = MetadataKey(kAttributeKeyAnchor) \/ writes[i].data = "anchor") =>
            /\ i = Len(writes)
            /\ writes[i].op = "CommitDatasetImpl"
            /\ writes[i].data = "anchor"
            /\ KeyOf(writes[i]) = MetadataKey(kAttributeKeyAnchor)
            /\ sinkState = "DATASET_COMMITTED"
            /\ i > 2
            /\ KeyOf(writes[i - 1]) = MetadataKey(kAttributeKeyFooter)
            /\ writes[i - 1].op = "CommitDatasetImpl"
            /\ KeyOf(writes[1]) = MetadataKey(kAttributeKeyHeader)
            /\ \A j \in 1..Len(writes) : writes[j].data \in {"page", "pagelist", "header", "footer"} => j < i

C10_Witness ==
    /\ sinkState = "DATASET_COMMITTED"
    /\ Len(writes) = 5
    /\ writes[2].data = "page"
    /\ writes[3].data = "pagelist"
    /\ writes[5].data = "anchor"

\* C14: a storage write that returns a negative code aborts the operation
\* that issued it: the operation ends in an error, so the failed write is the
\* last write of the run and nothing (locator, anchor) follows it.
C14_WriteErrorAbortsCommit ==
    \A i \in 1..Len(writes) :
        writes[i].rc < 0 => (sinkState = "FAILED" /\ i = Len(writes))

RECURSIVE PageBytesIn(_, _, _)
\* Sum of the sizes of the pages committed at history positions a..b.
PageBytesIn(h, a, b) ==
    IF a > b THEN 0
    ELSE (IF h[a].op = "page" THEN h[a].fBytesOnStorage ELSE 0) + PageBytesIn(h, a + 1, b)

\* Position of the last commitCluster before position b (0 when there is none).
PreviousCluster(b) ==
    LET before == {c \in IndexesOf("cluster") : c < b}
    IN  IF before = {} THEN 0 ELSE CHOOSE c \in before : \A d \in before : d <= c

\* C15: commitCluster returns the sum of the sizes of the pages committed
\* since the previous commitCluster (or since create) and leaves the
\* per-cluster byte counter at zero, so that the counter always equals the
\* bytes of the pages committed since the last commitCluster.
C15_CommitClusterReturnsClusterBytes ==
    /\ \A b \in IndexesOf("cluster") :
          history[b].fBytesOnStorage = PageBytesIn(history, PreviousCluster(b) + 1, b - 1)
    /\ fNBytesCurrentCluster =
          PageBytesIn(history, PreviousCluster(Len(history) + 1) + 1, Len(history))

C15_Witness ==
    /\ Len(history) = 3
    /\ history[1].op = "page" /\ history[1].fBytesOnStorage = 2
    /\ history[2].op = "cluster" /\ history[2].fBytesOnStorage = 2
    /\ history[3].op = "cluster" /\ history[3].fBytesOnStorage = 0

\* The page writes of the run, in the order issued.
PageWrites == LET IsPage(w) == w.data = "page" IN SelectSeq(writes, IsPage)

\* History positions of the committed pages, in call order.
PageCalls == LET IsPage(i) == history[i].op = "page" IN SelectSeq([i \in 1..Len(history) |-> i], IsPage)

\* Number of commitCluster calls, at the history positions `clusters`, that
\* returned before history position a.
ClustersBefore(clusters, a) == Cardinality({c \in clusters : c < a})

\* A 64-bit value below 2^16, as limbs.
Small64(n) == <<0, 0, 0, n>>

\* C16: a page committed after exactly k commitCluster calls is written to
\* the object (k, 0); pages of different clusters never share an object id.
C16_ClusterIdAdvances ==
    LET pw == PageWrites
        calls == PageCalls
        clusters == IndexesOf("cluster")
        before == [j \in 1..Len(calls) |-> ClustersBefore(clusters, calls[j])]
    IN  /\ Len(pw) = Len(calls)
        /\ \A j \in 1..Len(calls) :
              /\ pw[j].oid.lo = Small64(before[j])
              /\ pw[j].oid.hi = Small64(0)
        /\ \A i, j \in 1..Len(calls) : before[i] # before[j] => pw[i].oid # pw[j].oid

C16_Witness ==
    /\ Len(history) = 3
    /\ history[1].op = "page" /\ history[2].op = "cluster" /\ history[3].op = "page"
    /\ Len(PageWrites) = 2
    /\ PageWrites[1].oid.lo = Small64(0)
    /\ PageWrites[2].oid.lo = Small64(1)

\* C17: the sink writes each sealed page under oid = (clusterId, 0),
\* dkey = columnId, akey = the page's offset, with the sealed size, and
\* returns the locator (position = offset, bytesOnStorage = sealed size).
C17_PageKeyAndLocator ==
    LET pw == PageWrites
        calls == PageCalls
        clusters == IndexesOf("cluster")
        groups == IndexesOf("group")
    IN  /\ Len(pw) = Len(calls)
        /\ \A j \in 1..Len(calls) :
              LET w == pw[j]
                  h == history[calls[j]]
              IN  /\ w.op = "CommitSealedPageImpl"
                  /\ w.oid = [lo |-> Small64(ClustersBefore(clusters, calls[j])), hi |-> Small64(0)]
                  /\ w.dkey = Small64(h.fColumnId)
                  /\ w.akey = Small64(h.fPosition)
                  /\ w.size = h.fBytesOnStorage
                  /\ h.fPosition = (j - 1) + GroupsBetween(groups, 0, calls[j])

C17_Witness ==
    /\ Len(history) >= 2
    /\ history[1].op = "page" /\ history[1].fColumnId = 3 /\ history[1].fPosition = 0
    /\ PageWrites[1].oid = [lo |-> Small64(0), hi |-> Small64(0)]
    /\ PageWrites[1].dkey = Small64(3)
    /\ PageWrites[1].akey = Small64(0)
    /\ history[2].op = "page" /\ history[2].fColumnId = 0 /\ history[2].fPosition = 1

\* The class names the lookup knows, among those the runs use.
KnownClassNames == {<<83, 88>>, <<82, 80, 95, 88, 83, 70>>}

\* C18: create with an object class name the lookup does not know fails with
\* UnknownObjectClass, having made no pool or container call and no write.
C18_UnknownObjectClassFailsFirst ==
    (sinkState # "INIT" /\ optObjectClass \notin KnownClassNames) =>
        /\ sinkState = "FAILED"
        /\ sinkError = "UnknownObjectClass"
        /\ libCalls = <<>>
        /\ writes = <<>>

C18_Witness ==
    /\ sinkState = "FAILED"
    /\ sinkError = "UnknownObjectClass"
    /\ optObjectClass = <<98, 111, 103, 117, 115>>
    /\ ParseDaosURI(fURI)

\* C19: with create requested, a create code of 0 or 'already exists' lets
\* the constructor go on to open the container, and it succeeds exactly when
\* the open returns 0; any other create code fails it without an open.
C19_CreateToleratesOnlyExist ==
    (call.fn = "RDaosContainer" /\ result.done /\ call.create) =>
        IF call.rcCreate = 0 \/ call.rcCreate = 0 - DER_EXIST
        THEN /\ result.calls = <<"daos_cont_create_with_label", "daos_cont_open">>
             /\ result.ok <=> (call.rcOpen = 0)
        ELSE /\ ~result.ok
             /\ result.calls = <<"daos_cont_create_with_label">>

C19_Witness ==
    /\ call.fn = "RDaosContainer"
    /\ result.done
    /\ call.create
    /\ call.rcCreate = 0 - DER_EXIST
    /\ call.rcOpen = 0
    /\ result.ok

\* C20: decoding the bytes Serialize produced gives back the same six anchor
\* fields, and the byte count Deserialize returns is the size Serialize
\* returns, 20 + 4 + the length of the class name.
C20_AnchorRoundTrip ==
    (call.fn = "AnchorRoundTrip" /\ result.done) =>
        /\ result.decoded.ok
        /\ result.decoded.anchor = call.anchor
        /\ result.decoded.n = result.size
        /\ result.size = 20 + 4 + Len(call.anchor.fObjClass)
        /\ Len(result.buffer) = result.size

C20_Witness ==
    /\ call.fn = "AnchorRoundTrip"
    /\ result.done
    /\ call.anchor = [fVersion |-> 1, fNBytesHeader |-> 128, fLenHeader |-> 512,
                      fNBytesFooter |-> 64, fLenFooter |-> 256, fObjClass |-> <<79, 67, 95, 83, 88>>]
    /\ result.size = 29
    /\ result.decoded.n = 29

PageNumber(a) == Cardinality({b \in IndexesOf("page") : b <= a})

\* C11: after a sink run that ended with commitDataset, a fresh source
\* attaches, the anchor it decodes records the sizes of the header and footer
\* records written, and every sealed page it loads is read from the key and
\* object the sink wrote that page to and holds exactly the bytes written.
C11_SinkToSourceFidelity ==
    srcState \in {"ATTACHED", "ATTACH_FAILED"} =>
        /\ srcState = "ATTACHED"
        /\ \E i, j \in 1..Len(writes) :
              /\ writes[i].data = "header" /\ ntpl.fNBytesHeader = writes[i].size
              /\ writes[j].data = "footer" /\ ntpl.fNBytesFooter = writes[j].size
        /\ \A a \in DOMAIN loaded :
              LET w == PageWrites[PageNumber(a)]
              IN  /\ loaded[a].key = KeyOf(w)
                  /\ loaded[a].cid = w.cid
                  /\ loaded[a].fBuffer = w.payload

StoredAnchor ==
    LET fetched == DaosObjFetch(writes, MetadataKey(kAttributeKeyAnchor), kCidMetadata, AnchorGetSize)
    IN  IF fetched.rc # 0 THEN [ok |-> FALSE]
        ELSE AnchorDeserialize(fetched.buffer, AnchorGetSize)

\* C22: when attach has run and the anchor could not be read, or what was
\* read does not name a known object class, attach ended in an error and the
\* anchor read is the only read the source issued.
C22_BadAnchorAbortsAttach ==
    (/\ srcState \in {"ATTACHED", "ATTACH_FAILED"}
     /\ (~StoredAnchor.ok \/ ntpl.fObjClass \notin KnownClassNames)) =>
        /\ srcState = "ATTACH_FAILED"
        /\ reads = <<[key |-> MetadataKey(kAttributeKeyAnchor), cid |-> kCidMetadata,
                      length |-> AnchorGetSize]>>

C22_Witness ==
    /\ srcState = "ATTACH_FAILED"
    /\ StoredAnchor.ok
    /\ ntpl.fObjClass = <<>>
    /\ Len(history) > 1
    /\ Len(reads) = 1

\* C23: once LoadClusters has the vectored read's result and that result is
\* not zero, LoadClusters has thrown and returned no cluster.
C23_ReadVErrorThrows ==
    (fn = "Fetch" /\ clusterResult.outcome # "none" /\ outcome # "throw" /\ ret # 0) =>
        /\ clusterResult.outcome = "throw"
        /\ clusterResult.result = <<>>

C23_Witness ==
    /\ fn = "Fetch"
    /\ outcome = "return_dispatch"
    /\ ret < 0
    /\ Len(requests) = 2
    /\ clusterResult.outcome = "throw"

\* C24: every page the source reads is read with the object class the stored
\* anchor names, also when that is not the class a new container defaults to.
C24_PagesReadWithAnchorClass ==
    \A i \in 1..Len(reads) :
        reads[i].key.oid \notin {kOidMetadata, kOidPageList} =>
            /\ StoredAnchor.ok
            /\ reads[i].cid = ObjClassId(ClassName(StoredAnchor.anchor.fObjClass))

C24_Witness ==
    /\ srcState = "ATTACHED"
    /\ StoredAnchor.anchor.fObjClass = <<82, 80, 95, 88, 83, 70>>
    /\ \E i \in 1..Len(reads) :
          /\ reads[i].key.oid \notin {kOidMetadata, kOidPageList}
          /\ reads[i].cid = OC_RP_XSF

C26_AtomicOffsets ==
    call.fn = "concurrent" =>
        /\ \A i, j \in 1..Len(result.obtained) :
              result.obtained[i].offsetData = result.obtained[j].offsetData => i = j
        /\ {result.obtained[i].offsetData : i \in 1..Len(result.obtained)} = 0..(fOid - 1)

C26_Witness ==
    /\ call.fn = "concurrent"
    /\ result.th[1].pc = "fetched"
    /\ result.th[2].pc = "fetched"
    /\ result.th[1].kind = "page"
    /\ result.th[2].kind = "group"
    /\ result.th[1].offsetData = 2
    /\ result.th[2].offsetData = 1

\* A URI of the form daos://<pool>/<container>: a pool label of n >= 1
\* characters other than '/', a '/', and a container label of at least one
\* character.
WellFormedURI(uri) ==
    \E n \in 1..Len(uri) :
        /\ Len(uri) >= 7 + n + 2
        /\ SubSeq(uri, 1, 7) = <<"d", "a", "o", "s", ":", "/", "/">>
        /\ \A j \in 8..(7 + n) : uri[j] # "/"
        /\ uri[8 + n] = "/"

\* C27 as stated: every sink create and source construction on a URI that is
\* not of that form fails with InvalidURI and makes no pool or container call.
C27_InvalidURIRejected ==
    (call.fn \in {"SinkOpen", "SourceOpen"} /\ result.done /\ ~WellFormedURI(call.uri)) =>
        /\ result.error = "InvalidURI"
        /\ result.calls = <<>>

\* C27, amended: on a URI that is not of that form no pool or container call
\* is made; the failure is InvalidURI, except that a sink configured with an
\* unknown object class has already failed with UnknownObjectClass.
C27_InvalidURIRejectedUnlessClassUnknown ==
    (call.fn \in {"SinkOpen", "SourceOpen"} /\ result.done /\ ~WellFormedURI(call.uri)) =>
        /\ result.calls = <<>>
        /\ result.error =
              IF call.fn = "SinkOpen" /\ call.cls \notin KnownClassNames
              THEN "UnknownObjectClass" ELSE "InvalidURI"

C27_Witness ==
    /\ call.fn = "SourceOpen"
    /\ call.uri = <<"d", "a", "o", "s", ":", "/", "/", "o", "n", "l", "y", "p", "o", "o", "l">>
    /\ call.rcConnect = 0
    /\ result.done
    /\ result.error = "InvalidURI"

\* The parent's barrier is launched.
BarrierLaunched == 0 \in DOMAIN evs /\ evs[0].barrier

\* Every request of the batch (one per object and distribution key) has its
\* child event on the parent and has been handed to the library.
AllDispatched ==
    /\ Len(vec) = Cardinality(BatchKeySet)
    /\ Len(requests) = Len(vec)
    /\ \A i \in 1..Len(vec) : i \in Children(evs) /\ requests[i].issued

\* C28: when a step leaves the barrier launched, every request of the batch
\* has had its child event reserved and its fetch/update dispatched, and if
\* the barrier was launched before the step the parent's children are the
\* same after it.
C28_BarrierAfterAllChildren ==
    [][BarrierLaunched' =>
         /\ AllDispatched'
         /\ BarrierLaunched => Children(evs') = Children(evs)]_vars

C28_Witness ==
    /\ BarrierLaunched
    /\ pc = "poll"
    /\ Len(vec) = 3
    /\ Children(evs) = {1, 2, 3}
    /\ evs[3].status = "running"

\* C29: a step that launches the barrier on a parent without any dispatched
\* child ends the call with an exception, and the barrier is not in effect.
C29_BarrierWithoutChildrenIsError ==
    [][(/\ pc = "loop"
        /\ pc' # "loop"
        /\ Len(requests) = Len(vec)
        /\ {k \in Children(evs) : requests[k].issued} = {}) =>
           /\ outcome' = "throw"
           /\ ~BarrierLaunched']_vars

C29_Witness ==
    /\ batch = <<>>
    /\ 0 \in DOMAIN evs
    /\ pc = "done"
    /\ outcome = "throw"
    /\ ~evs[0].barrier

\* An event counts as finalized when daos_event_fini was called on it or on
\* its parent.
Finalized(k) ==
    \/ evs[k].status = "fini"
    \/ evs[k].parent \in DOMAIN evs /\ evs[evs[k].parent].status = "fini"

\* C30: when a vectored call has returned, with the result of the poll or
\* with the code of a failed dispatch, every event it reserved, parent and
\* children, has been finalized.
C30_EventsFinalizedBeforeReturn ==
    (pc = "done" /\ outcome \in {"return_poll", "return_dispatch"}) =>
        \A k \in DOMAIN evs : Finalized(k)

\* C31: as long as the library has not completed a request it was handed,
\* the request's arguments and child event, the parent event and the object
\* handle are still there: the call has not left the block that owns them.
C31_ReferencedStateOutlivesRequest ==
    \A k \in DOMAIN evs \ {0} :
        (requests[k].issued /\ evs[k].status = "running") => LocalsInScope

\* C32: a request of several akeys, freshly constructed or move-constructed,
\* has as many I/O descriptors and scatter-gather lists as akeys; descriptor
\* i is named by element i of the request's own akey vector, and list i holds
\* one buffer, element i of the request's own buffer vector, whose length is
\* the record size of descriptor i.
C32_IodsAndSglsAligned ==
    (call.fn = "FetchUpdateArgs" /\ result.done) =>
        LET a == result.args
            n == Len(call.as)
        IN  /\ a.fAkeys.elems = call.as
            /\ Len(a.fIods.elems) = n
            /\ Len(a.fSgls.elems) = n
            /\ \A i \in 1..n :
                  /\ a.fIods.elems[i].iod_name = [heap |-> a.fAkeys.heap, index |-> i]
                  /\ a.fSgls.elems[i].sg_nr = 1
                  /\ a.fSgls.elems[i].sg_iovs = [heap |-> a.fIovs.heap, index |-> i]
                  /\ a.fIovs.elems[i].iov_len = a.fIods.elems[i].iod_size
                  /\ a.fIovs.elems[i] = call.vs[i]

C32_Witness ==
    /\ call.fn = "FetchUpdateArgs"
    /\ result.done
    /\ call.moves = 2
    /\ Len(call.as) = 3
    /\ result.args.at = 3
    /\ result.args.fIods.elems[2].iod_size = 2
    /\ result.args.fIods.elems[3].iod_size = 1

\* C33: the library is handed an event exactly with the asynchronous
\* requests. A single-key read or write hands over no event and reserves
\* none; request i of a vectored call hands over its own child event i.
C33_EventIffAsync ==
    /\ \A j \in 1..Len(libRequests) :
          (libRequests[j].event # nullptr) <=> libRequests[j].args.fIsAsync
    /\ outcome = "return_single" =>
          /\ evs = EmptyMap
          /\ \A j \in 1..Len(libRequests) : libRequests[j].event = nullptr
    /\ \A i \in 1..Len(requests) :
          requests[i].issued =>
              /\ libRequests[i].args.fIsAsync
              /\ libRequests[i].event = i
              /\ i \in Children(evs)

C33_Witness ==
    /\ outcome = "return_single"
    /\ fn = "Update"
    /\ Len(libRequests) = 1
    /\ libRequests[1].event = nullptr
    /\ ret = 0

\* C34: every fetch reaches the library with all its record sizes set to
\* ANY, whatever the number of akeys, and every update with the record sizes
\* of its buffers; the code the library answered is the code Fetch / Update
\* returned to the call.
C34_FetchSetsRecordSizesToAny ==
    /\ \A j \in 1..Len(libRequests) :
          LET a == libRequests[j].args
          IN  \A i \in 1..Len(a.fIods) :
                 a.fIods[i].iod_size =
                     IF libRequests[j].fn = "Fetch" THEN DAOS_REC_ANY ELSE a.fIovs[i].iov_len
    /\ \A i \in 1..Len(requests) : requests[i].issued => requests[i].rc = libRequests[i].rc
    /\ outcome = "return_single" => ret = libRequests[1].rc

C34_Witness ==
    /\ fn = "Fetch"
    /\ Len(libRequests) = 1
    /\ Len(libRequests[1].args.fAkeys) = 3
    /\ libRequests[1].args.fIovs[2].iov_len = 1
    /\ libRequests[1].args.fIods[2].iod_size = DAOS_REC_ANY
    /\ libRequests[1].rc = 0 - DER_INVAL
    /\ ret = 0 - DER_INVAL

RECURSIVE SumSizes(_)
SumSizes(pages) == IF pages = <<>> THEN 0 ELSE Head(pages).fSize + SumSizes(Tail(pages))

\* C35: the pages LoadClusters found have buffer positions 0, then each the
\* previous position plus the previous size; the buffer is as large as all
\* sizes together; the slices are pairwise disjoint and inside the buffer;
\* and for every page of a requested column the slice registered under
\* (columnId, pageNo) is the iov of the read issued for that page's key.
C35_PageSlices ==
    (call.fn = "LoadClusters" /\ result.done) =>
        LET P == result.prepared.onDiskPages
            size == result.prepared.szPayload
        IN  /\ \A i \in 1..Len(P) :
                  P[i].fBufPos = IF i = 1 THEN 0 ELSE P[i - 1].fBufPos + P[i - 1].fSize
            /\ size = SumSizes(P)
            /\ \A i \in 1..Len(P) : P[i].fBufPos >= 0 /\ P[i].fBufPos + P[i].fSize <= size
            /\ \A i, j \in 1..Len(P) :
                  i # j => (P[i].fBufPos + P[i].fSize <= P[j].fBufPos \/ P[j].fBufPos + P[j].fSize <= P[i].fBufPos)
            /\ \A k \in 1..Len(call.fColumnSet) :
                  LET c == call.fColumnSet[k]
                  IN  \A n \in 1..Len(call.clusterDesc[c]) :
                        LET info == call.clusterDesc[c][n]
                            key == GetDaosPageKey(call.clusterId, c, info.fPosition)
                            regs == {e \in result.prepared.pageMap : e.key = <<c, n - 1>>}
                            rds == {i \in 1..Len(result.prepared.reads) : result.prepared.reads[i].key = key}
                        IN  /\ Cardinality(regs) = 1
                            /\ Cardinality(rds) = 1
                            /\ \A e \in regs, i \in rds :
                                  /\ e.page.fSize = info.fBytesOnStorage
                                  /\ result.prepared.reads[i].iov =
                                        [iov_buf |-> e.page.fAddress, iov_len |-> e.page.fSize]

C35_Witness ==
    /\ call.fn = "LoadClusters"
    /\ result.done
    /\ call.fColumnSet = <<3, 0>>
    /\ Len(result.prepared.onDiskPages) = 4
    /\ result.prepared.szPayload = 6
    /\ result.prepared.onDiskPages[3].fColumnId = 0
    /\ result.prepared.onDiskPages[3].fBufPos = 3

\* C36: for a class name of at most kOCNameMaxLength characters Serialize
\* writes no more bytes than GetSize() reserves, which is 20 + 4 + 64, and
\* decoding the GetSize() bytes the source reads gives the whole anchor.
C36_AnchorFitsReservedSize ==
    (/\ call.fn = "AnchorRoundTrip"
     /\ result.done
     /\ Len(call.anchor.fObjClass) <= kOCNameMaxLength) =>
        /\ result.reserved = 20 + 4 + kOCNameMaxLength
        /\ Len(result.buffer) <= result.reserved
        /\ result.fixedDecoded.ok
        /\ result.fixedDecoded.anchor = call.anchor

C36_Witness ==
    /\ call.fn = "AnchorRoundTrip"
    /\ result.done
    /\ Len(call.anchor.fObjClass) = kOCNameMaxLength
    /\ Len(result.buffer) = 88
    /\ result.reserved = 88
    /\ result.fixedDecoded.n = 88

\* C37: when the library call behind an event-queue operation answers a
\* negative code, the operation raises an error that carries that code;
\* PollEvent otherwise returns 0.
C37_LibraryCodeSurfaced ==
    (call.fn \in {"Initialize", "InitializeEvent", "LaunchParentBarrier", "FinalizeEvent", "Destroy",
                  "PollEvent"} /\ result.done) =>
        IF call.rc < 0
        THEN result.raised.threw /\ result.raised.code = call.rc
        ELSE IF call.fn = "PollEvent" /\ call.rcFini < 0
        THEN result.raised.threw /\ result.raised.code = call.rcFini
        ELSE ~result.raised.threw /\ result.raised.ret = 0

\* The (oid, dkey, akey) a write went to.
WriteTarget(w) == <<w.oid, w.dkey, w.akey>>

\* C38: no two writes of one sink go to the same (oid, dkey, akey), and no
\* page is written to the metadata object or to the page-list object, where
\* the anchor, header, footer and page lists are.
C38_WriteKeysDistinct ==
    \A j \in 1..Len(writes) :
        /\ \A i \in 1..(j - 1) : WriteTarget(writes[i]) # WriteTarget(writes[j])
        /\ (writes[j].data = "page") <=> (writes[j].oid \notin {kOidMetadata, kOidPageList})

C38_Witness ==
    /\ sinkState = "DATASET_COMMITTED"
    /\ Len(writes) = 6
    /\ writes[2].data = "page"
    /\ writes[3].data = "page"
    /\ writes[2].oid = writes[3].oid
    /\ writes[2].dkey = writes[3].dkey
    /\ writes[4].oid = kOidPageList
    /\ writes[6].akey = kAttributeKeyAnchor

\* ------------------------------------------------------------------------
\* Claims about two vectored calls on one event queue
\* ------------------------------------------------------------------------
\* Caller t has left VectorReadWrite through one of its return statements.
CallerReturned(t) ==
    /\ result.th[t].pc = "done"
    /\ result.th[t].outcome \in {"return_dispatch", "return_poll"}

\* The requests of caller t the library is still working on.
OwnInFlight(t) ==
    {c \in QueueChildren(result.fQueue, ParentEvent(t)) : result.fQueue[c].status = "running"}

\* What caller t returns when it runs alone with the same dispatch codes.
OwnResult(t) ==
    LET rcs == result.th[t].rcs
    IN  IF \E i \in 1..Len(rcs) : rcs[i] < 0
        THEN rcs[CHOOSE i \in 1..Len(rcs) : rcs[i] < 0]
        ELSE 0

\* C39: of two vectored calls running concurrently on containers of one pool,
\* each has returned only when none of its own requests is still in flight,
\* and what it returned is determined by its own requests alone.
C39_ConcurrentCallsDoNotInterfere ==
    call.fn = "VectorReadWrite" =>
        \A t \in Callers :
            CallerReturned(t) =>
                /\ OwnInFlight(t) = {}
                /\ result.th[t].ret = OwnResult(t)

\* The same for the returns that follow the wait on the parent event.
PollReturnsIsolated ==
    call.fn = "VectorReadWrite" =>
        \A t \in Callers :
            result.th[t].outcome = "return_poll" =>
                /\ OwnInFlight(t) = {}
                /\ result.th[t].ret = OwnResult(t)

PollReturnWhileOtherInFlight ==
    /\ call.fn = "VectorReadWrite"
    /\ result.th[1].outcome = "return_poll"
    /\ Len(result.th[1].rcs) = MaxVec
    /\ OwnInFlight(2) # {}

====
